---- MODULE Spec2Model ----
(***************************************************************************)
(* Pathoscope: the differential-expression analysis of                     *)
(* backend/modules/analysis.py, its three chart transforms, and the two    *)
(* request handlers of app.py that run them on an uploaded matrix.         *)
(*                                                                         *)
(* Numbers.  Expression values are small integers.  A p-value is an exact  *)
(* rational [k |-> "num", n, d] (n/d in lowest terms) or the float NaN     *)
(* [k |-> "nan"].  A log2 fold change is kept as the exact rational whose  *)
(* base-2 logarithm it is: [k |-> "fin", n, d] stands for log2(n/d), so    *)
(* the literal 0 is log2(1/1) and the threshold 1 is log2(2/1); "ninf" is  *)
(* -inf (log2 of 0) and "nan" is NaN (log2 of a negative number).  log2 is *)
(* strictly increasing, so every comparison the code makes on log2 values  *)
(* is made here on the rationals, exactly.                                 *)
(***************************************************************************)
EXTENDS Integers, Sequences, FiniteSets, TLC

VARIABLES filename, df, ttest, results, volcano, heatmap, ma_plot, response, history, session, pc,
          heatmap_again, call, queue, sent, ret, csv, writers, ref, job, report, downloads

\* A collaborator call in progress: the call and its arguments, the items
\* its loop has still to visit, the requests it has sent to the external
\* service and what it has handed back to its caller.
service_vars == <<call, queue, sent, ret>>

\* The variables the analysis, the chart transforms and the upload handlers
\* never write.
\* csv: the uploaded file as written, before pandas parses it.
\* writers, ref: the calls in progress on the history file, and the list a
\* reference store would hold.
store_vars == <<writers, ref>>

\* job: the Celery job of POST /api/analyze.  report: the file report.pdf.
\* downloads: the PDF downloads in progress.
backend_vars == <<job, report, downloads>>

extra_vars == <<heatmap_again, service_vars, csv, store_vars, backend_vars>>

vars == <<filename, df, ttest, results, volcano, heatmap, ma_plot, response, history, session, pc,
          extra_vars>>

(***************************************************************************)
(* Bounds of the model.                                                    *)
(***************************************************************************)
MaxGenes == 2
MaxCols == 4
MaxCells == 7
MaxBadCols == 1

\* Cell values of a numeric column.
Values == {-1, 1, 2}

\* A cell of a column that pandas read as text (dtype object): np.mean over
\* a group holding it raises TypeError.
NonNumeric == 99

(***************************************************************************)
(* Exact rationals.                                                        *)
(***************************************************************************)
RECURSIVE GCD(_, _)
GCD(a, b) == IF b = 0 THEN a ELSE GCD(b, a % b)

Num(n, d) == LET g == GCD(n, d) IN [k |-> "num", n |-> n \div g, d |-> d \div g]

NaN == [k |-> "nan", n |-> 0, d |-> 1]

IsNaN(p) == p.k = "nan"

PZero == Num(0, 1)

POne == Num(1, 1)

\* a < b on rationals; every comparison with NaN is false, as for floats.
PLt(a, b) == ~IsNaN(a) /\ ~IsNaN(b) /\ a.n * b.d < b.n * a.d

PLe(a, b) == ~IsNaN(a) /\ ~IsNaN(b) /\ a.n * b.d <= b.n * a.d

\* A Python list or numpy vector held by value: its elements are computed
\* once, when it is built.
Array(f) == f \o <<>>

RECURSIVE SumSeq(_)
SumSeq(s) == IF s = <<>> THEN 0 ELSE Head(s) + SumSeq(Tail(s))

(***************************************************************************)
(* log2 values, kept as the rational they are the logarithm of.            *)
(***************************************************************************)
Log2Fin(n, d) == LET g == GCD(n, d) IN [k |-> "fin", n |-> n \div g, d |-> d \div g]

Log2NegInf == [k |-> "ninf", n |-> 0, d |-> 1]

Log2NaN == [k |-> "nan", n |-> 0, d |-> 1]

\* The literal 0 of analysis.py line 70.
Log2Zero == Log2Fin(1, 1)

\* np.log2(num/den) for den > 0: -inf at 0, NaN below 0.
NpLog2(num, den) ==
    IF num > 0 THEN Log2Fin(num, den)
    ELSE IF num = 0 THEN Log2NegInf
    ELSE Log2NaN

\* 2^t for the integer thresholds the code compares log2 values with.
RECURSIVE Pow2(_)
Pow2(t) == IF t = 0 THEN 1 ELSE 2 * Pow2(t - 1)

\* abs(x) > t for a log2 value x and an integer t >= 0.
AbsLog2Gt(x, t) ==
    CASE x.k = "nan" -> FALSE
      [] x.k = "ninf" -> TRUE
      [] OTHER -> (x.n > Pow2(t) * x.d) \/ (x.n * Pow2(t) < x.d)

\* abs(x) as a log2 value: log2(max(r, 1/r)); abs(-inf) = +inf is kept as
\* "pinf".  NaN stays NaN.
AbsLog2(x) ==
    CASE x.k = "nan" -> x
      [] x.k = "ninf" -> [k |-> "pinf", n |-> 0, d |-> 1]
      [] OTHER -> IF x.n >= x.d THEN x ELSE [k |-> "fin", n |-> x.d, d |-> x.n]

\* a > b on absolute log2 values (results of AbsLog2).
AbsKeyGt(a, b) ==
    CASE a.k = "nan" \/ b.k = "nan" -> FALSE
      [] a.k = "pinf" -> b.k # "pinf"
      [] b.k = "pinf" -> FALSE
      [] OTHER -> a.n * b.d > b.n * a.d

(***************************************************************************)
(* The expression matrix: a pandas DataFrame.                              *)
(*   index   : the row labels (gene identifiers), in row order             *)
(*   columns : the column labels (sample identifiers), in column order     *)
(*   values  : values[i][j], the cell of row i and column j                *)
(***************************************************************************)
GeneId(i) == "G" \o ToString(i)

SampleId(j) == "S" \o ToString(j)

RowOf(frame, gene) == CHOOSE i \in 1..Len(frame.index) : frame.index[i] = gene

ColOf(frame, col) == CHOOSE j \in 1..Len(frame.columns) : frame.columns[j] = col

\* df.loc[gene, cols].values
Loc(frame, gene, cols) ==
    Array([c \in 1..Len(cols) |->
              frame.values[RowOf(frame, gene)][ColOf(frame, cols[c])]])

\* df.empty: some axis has length 0.
IsEmptyFrame(frame) == Len(frame.index) = 0 \/ Len(frame.columns) = 0

(***************************************************************************)
(* scipy.stats.ttest_ind(a, b): two-sided, pooled variance.  The value is  *)
(* NaN when the statistic is undefined (an empty group, n1 + n2 - 2 = 0    *)
(* degrees of freedom, or 0/0: zero pooled variance and equal means); it   *)
(* is 0.0 when the pooled variance is 0 and the means differ (t = +-inf),  *)
(* 1.0 when the means are equal (t = 0).  Otherwise it is the Student-t    *)
(* tail probability, a number strictly between 0 and 1 that the model does *)
(* not compute: `o` is that number, fixed per row in the initial state.    *)
(* ttest_ind does not raise on numeric arrays.                             *)
(***************************************************************************)
IsConstSeq(s) == \A i, j \in 1..Len(s) : s[i] = s[j]

MeansEqual(a, b) == SumSeq(a) * Len(b) = SumSeq(b) * Len(a)

\* The cases in which ttest_ind's p-value is decided by the code path alone.
TTestFixed(a, b) ==
    IF Len(a) = 0 \/ Len(b) = 0 THEN {NaN}
    ELSE IF Len(a) + Len(b) - 2 <= 0 THEN {NaN}
    ELSE IF IsConstSeq(a) /\ IsConstSeq(b)
         THEN (IF MeansEqual(a, b) THEN {NaN} ELSE {PZero})
    ELSE IF MeansEqual(a, b) THEN {POne}
    ELSE {}

ttest_ind(a, b, o) ==
    IF TTestFixed(a, b) # {} THEN CHOOSE p \in TTestFixed(a, b) : TRUE ELSE o

(***************************************************************************)
(* scipy.stats.false_discovery_control(ps), method 'bh'.                   *)
(***************************************************************************)
\* Stable ascending rank of position i among the p-values ps.
AscRank(ps, i) ==
    1 + Cardinality({j \in 1..Len(ps) :
                        PLt(ps[j], ps[i]) \/ (ps[j] = ps[i] /\ j < i)})

\* np.argsort(ps): order[r] is the position holding the r-th smallest value.
ArgSort(ps) ==
    LET rank == Array([i \in 1..Len(ps) |-> AscRank(ps, i)])
    IN  Array([r \in 1..Len(ps) |-> CHOOSE i \in 1..Len(ps) : rank[i] = r])

\* p * (m / i)
Scale(p, m, i) == Num(p.n * m, p.d * i)

\* np.minimum.accumulate over the reversed vector: the running minimum from
\* the end, b[r] = min(a[r], .., a[m]).
MinFrom(a, r) ==
    CHOOSE x \in {a[j] : j \in r..Len(a)} : \A j \in r..Len(a) : PLe(x, a[j])

\* np.clip(p, 0, 1)
Clip01(p) == IF PLt(POne, p) THEN POne ELSE IF PLt(p, PZero) THEN PZero ELSE p

\* The position of `i` in the permutation `order`.
RankIn(order, i) == CHOOSE r \in 1..Len(order) : order[r] = i

\* The adjusted values left in sorted-p order.
UnsortIdentity(vals, order) == vals

\* np.put_along_axis(ps, order, values): the value of sorted rank r goes
\* back to the input position order[r].
Unsort(vals, order) == Array([i \in 1..Len(vals) |-> vals[RankIn(order, i)]])

\* [raised |-> TRUE] is the ValueError "`ps` must include only numbers
\* between 0 and 1" (a NaN fails ps == clip(ps, 0, 1)).
false_discovery_control(ps) ==
    IF \E i \in 1..Len(ps) : IsNaN(ps[i]) \/ PLt(ps[i], PZero) \/ PLt(POne, ps[i])
    THEN [raised |-> TRUE, value |-> <<>>]
    ELSE IF Len(ps) <= 1 THEN [raised |-> FALSE, value |-> ps]
    ELSE LET m == Len(ps)
             order == ArgSort(ps)
             sorted == Array([r \in 1..m |-> Scale(ps[order[r]], m, r)])
             acc == Array([r \in 1..m |-> MinFrom(sorted, r)])
             back == Unsort(acc, order)
         IN  [raised |-> FALSE, value |-> Array([i \in 1..m |-> Clip01(back[i])])]

(***************************************************************************)
(* differential_expression_analysis                                        *)
(***************************************************************************)
\* Thresholds of analysis.py lines 87-88: |log2fc| > 1 and adj_p < 0.05.
Log2fcThreshold == 1
AdjPNum == 5
AdjPDen == 100

\* The split that rounds the control group up instead of down.
NControlCeil(n_samples) == (n_samples + 1) \div 2

\* Line 45: n_control = n_samples // 2
NControl(n_samples) == n_samples \div 2

\* Line 47: df.columns[:n_control]
ControlCols(frame) == SubSeq(frame.columns, 1, NControl(Len(frame.columns)))

\* Line 48: df.columns[n_control:]
TreatmentCols(frame) ==
    SubSeq(frame.columns, NControl(Len(frame.columns)) + 1, Len(frame.columns))

\* np.mean(v) > 0; the mean of an empty group is NaN, and NaN > 0 is false.
MeanGtZero(v) == Len(v) > 0 /\ SumSeq(v) > 0

\* The fold change without the else branch of line 70: a control mean that
\* is not positive is replaced by 1, so log2 of the treatment mean is kept.
Log2FoldChangeUnguarded(control_values, treatment_values) ==
    IF Len(treatment_values) = 0 THEN Log2NaN
    ELSE IF MeanGtZero(control_values)
    THEN NpLog2(SumSeq(treatment_values) * Len(control_values),
                SumSeq(control_values) * Len(treatment_values))
    ELSE NpLog2(SumSeq(treatment_values), Len(treatment_values))

\* Lines 64-70: the log2 fold change of one gene.
Log2FoldChange(control_values, treatment_values) ==
    IF MeanGtZero(control_values)
    THEN IF Len(treatment_values) = 0 THEN Log2NaN
         ELSE NpLog2(SumSeq(treatment_values) * Len(control_values),
                     SumSeq(control_values) * Len(treatment_values))
    ELSE Log2Zero

\* The thresholds of lines 87-88 read as inclusive (>= 1, <= 0.05).
IsSignificantInclusive(log2fc, adj_p) ==
    /\ log2fc.k # "nan"
    /\ \/ log2fc.k = "ninf"
       \/ log2fc.n >= Pow2(Log2fcThreshold) * log2fc.d
       \/ log2fc.n * Pow2(Log2fcThreshold) <= log2fc.d
    /\ PLe(adj_p, Num(AdjPNum, AdjPDen))

\* Lines 87-88.
IsSignificant(log2fc, adj_p) ==
    AbsLog2Gt(log2fc, Log2fcThreshold) /\ PLt(adj_p, Num(AdjPNum, AdjPDen))

HasNonNumeric(v) == \E i \in 1..Len(v) : v[i] = NonNumeric

\* Lines 60-80: one pass of the per-gene loop.  raised: np.mean raised
\* TypeError on a text cell, which leaves the loop and the outer try.
GeneRow(frame, gene, control_cols, treatment_cols, o) ==
    LET control_values == Loc(frame, gene, control_cols)
        treatment_values == Loc(frame, gene, treatment_cols)
    IN  IF HasNonNumeric(control_values) \/ HasNonNumeric(treatment_values)
        THEN [raised |-> TRUE, log2fc |-> Log2Zero, p_value |-> POne]
        ELSE [raised |-> FALSE,
              log2fc |-> Log2FoldChange(control_values, treatment_values),
              p_value |-> ttest_ind(control_values, treatment_values, o)]

\* Line 98: the value returned by the outer except branch.
FailedResult == [significant_genes |-> <<>>]

\* The sub-sequence of genes whose flag is set, in order (lines 86-92).
RECURSIVE Flagged(_, _, _)
Flagged(genes, flags, i) ==
    IF i > Len(genes) THEN <<>>
    ELSE (IF flags[i] THEN <<genes[i]>> ELSE <<>>) \o Flagged(genes, flags, i + 1)

differential_expression_analysis(frame, tt) ==
    LET rows == Array([i \in 1..Len(frame.index) |->
                    GeneRow(frame, frame.index[i], ControlCols(frame),
                            TreatmentCols(frame), tt[i])])
        p_values == Array([i \in 1..Len(rows) |-> rows[i].p_value])
        fdc == false_discovery_control(p_values)
        significant == Array([i \in 1..Len(rows) |->
                                IsSignificant(rows[i].log2fc, fdc.value[i])])
    IN  IF \E i \in 1..Len(rows) : rows[i].raised THEN FailedResult
        ELSE IF fdc.raised THEN FailedResult
        ELSE [genes |-> frame.index,
              log2fc |-> Array([i \in 1..Len(rows) |-> rows[i].log2fc]),
              p_values |-> p_values,
              adj_p_values |-> fdc.value,
              significant |-> significant,
              significant_genes |-> Flagged(frame.index, significant, 1)]

(***************************************************************************)
(* Chart transforms.  A Plotly figure is kept as the data of its trace;    *)
(* EmptyDict is the Python literal {}.                                     *)
(***************************************************************************)
EmptyDict == [empty |-> TRUE]

None == [none |-> TRUE]

\* Line 181: significant_data[:50]
TopN == 50

\* -np.log10(p): kept as the p-value it is taken of; +inf at p = 0.
NegLog10(p) == IF p = PZero THEN [k |-> "pinf", of |-> p] ELSE [k |-> "fin", of |-> p]

\* Lines 104-162.  A result without 'genes' raises KeyError at line 107.
create_volcano_plot(res) ==
    IF "genes" \notin DOMAIN res THEN [plot_data |-> <<>>, figure |-> EmptyDict]
    ELSE LET data == [i \in 1..Len(res.genes) |->
                        [gene |-> res.genes[i],
                         log2fc |-> res.log2fc[i],
                         p_value |-> res.p_values[i],
                         adj_p_value |-> res.adj_p_values[i],
                         significant |-> res.significant[i],
                         color |-> IF res.significant[i] THEN "red" ELSE "gray"]]
         IN  [plot_data |-> data,
              figure |-> [x |-> [i \in 1..Len(data) |-> data[i].log2fc],
                          y |-> [i \in 1..Len(data) |-> NegLog10(data[i].p_value)],
                          text |-> [i \in 1..Len(data) |-> data[i].gene]]]

\* Lines 170-177: the significant genes, in result order.
RECURSIVE SignificantData(_, _)
SignificantData(res, i) ==
    IF i > Len(res.genes) THEN <<>>
    ELSE (IF res.significant[i]
          THEN <<[gene |-> res.genes[i], log2fc |-> res.log2fc[i],
                  p_value |-> res.p_values[i]]>>
          ELSE <<>>) \o SignificantData(res, i + 1)

\* The sort of line 180 with key log2fc instead of abs(log2fc): the key is
\* the ratio itself, -inf (ratio 0) last.
DescRankSigned(data, i) ==
    1 + Cardinality({j \in 1..Len(data) :
            \/ /\ data[j].log2fc.k = "fin"
               /\ \/ data[i].log2fc.k # "fin"
                  \/ data[j].log2fc.n * data[i].log2fc.d
                        > data[i].log2fc.n * data[j].log2fc.d
            \/ /\ \/ data[j].log2fc.k # "fin" /\ data[i].log2fc.k # "fin"
                  \/ /\ data[j].log2fc.k = "fin" /\ data[i].log2fc.k = "fin"
                     /\ data[j].log2fc.n * data[i].log2fc.d
                           = data[i].log2fc.n * data[j].log2fc.d
               /\ j < i})

\* Line 180: list.sort(key=abs(log2fc), reverse=True).  Python's sort is
\* stable, also with reverse=True: equal keys keep their order.
DescRank(data, i) ==
    1 + Cardinality({j \in 1..Len(data) :
            \/ AbsKeyGt(AbsLog2(data[j].log2fc), AbsLog2(data[i].log2fc))
            \/ /\ ~AbsKeyGt(AbsLog2(data[i].log2fc), AbsLog2(data[j].log2fc))
               /\ j < i})

SortByAbsLog2fc(data) ==
    LET rank == Array([i \in 1..Len(data) |-> DescRank(data, i)])
    IN  Array([r \in 1..Len(data) |-> data[CHOOSE i \in 1..Len(data) : rank[i] = r]])

\* A cut that depends on an earlier call: once a heatmap has been built the
\* list is rotated by one place before it is cut.
TakeRotating(xs, n) ==
    IF heatmap = None \/ Len(xs) < 2
    THEN SubSeq(xs, 1, IF Len(xs) < n THEN Len(xs) ELSE n)
    ELSE SubSeq(Tail(xs) \o <<Head(xs)>>, 1, IF Len(xs) < n THEN Len(xs) ELSE n)

\* xs[:n]
Take(xs, n) == SubSeq(xs, 1, IF Len(xs) < n THEN Len(xs) ELSE n)

\* Line 181.
TopGenes(data) ==
    LET top == Take(SortByAbsLog2fc(data), TopN)
    IN  Array([r \in 1..Len(top) |-> top[r].gene])

\* The rows of the listed genes picked in the frame's row order.
HeatmapRowsInFrameOrder(frame, top_genes) ==
    LET keep == {i \in 1..Len(frame.index) :
                    \E r \in 1..Len(top_genes) : top_genes[r] = frame.index[i]}
        nth(r) == CHOOSE i \in keep : Cardinality({j \in keep : j < i}) = r - 1
    IN  Array([r \in 1..Cardinality(keep) |-> frame.values[nth(r)]])

\* Lines 184 and 211: df.loc[top_genes].values, the rows of the listed
\* genes in the order of the list.
HeatmapRows(frame, top_genes) ==
    Array([r \in 1..Len(top_genes) |-> frame.values[RowOf(frame, top_genes[r])]])

\* Lines 168-216.
create_heatmap(frame, res) ==
    IF "genes" \notin DOMAIN res
    THEN [genes |-> <<>>, samples |-> <<>>, values |-> <<>>, figure |-> EmptyDict]
    ELSE LET top_genes == TopGenes(SignificantData(res, 1))
             z == HeatmapRows(frame, top_genes)
         IN  [genes |-> top_genes,
              samples |-> frame.columns,
              values |-> z,
              figure |-> [z |-> z, x |-> frame.columns, y |-> top_genes]]

\* np.random.normal(5, 2, n): any vector of n floats; two of them here.
RandomValues == {4, 6}

\* Lines 222-275; avg is the vector drawn at line 225.
create_ma_plot(res, avg) ==
    IF "genes" \notin DOMAIN res THEN [plot_data |-> <<>>, figure |-> EmptyDict]
    ELSE LET data == [i \in 1..Len(res.genes) |->
                        [gene |-> res.genes[i],
                         log2fc |-> res.log2fc[i],
                         avg_expression |-> avg[i],
                         significant |-> res.significant[i],
                         color |-> IF res.significant[i] THEN "red" ELSE "gray"]]
         IN  [plot_data |-> data,
              figure |-> [x |-> [i \in 1..Len(data) |-> data[i].avg_expression],
                          y |-> [i \in 1..Len(data) |-> data[i].log2fc],
                          text |-> [i \in 1..Len(data) |-> data[i].gene]]]

\* The vectors line 225 can draw for a result (none is drawn when the
\* result has no 'genes': len(results['genes']) raises first).
AvgVectors(res) ==
    IF "genes" \notin DOMAIN res THEN {<<>>}
    ELSE [1..Len(res.genes) -> RandomValues]

\* What the chart transforms leave of their arguments.  create_volcano_plot
\* and create_ma_plot only read results[...] (lines 107-115, 225-235);
\* create_heatmap appends to and sorts its own list significant_data and
\* takes a new frame df.loc[top_genes] (lines 170-184).
ResultsAfterVolcano(res) == res

\* A create_heatmap that sorts and cuts results['significant_genes'] itself
\* instead of a list of its own.
InputsAfterHeatmapInPlace(frame, res) ==
    [df |-> frame, results |-> [res EXCEPT !.significant_genes = <<>>]]

InputsAfterHeatmap(frame, res) == [df |-> frame, results |-> res]

ResultsAfterMaPlot(res) == res

\* Lines 277-295.
analyze_pathways(genes) == <<"hsa04010", "hsa04151", "hsa04215">>

\* Lines 14-36.  is_none: the pair returned is (None, None).
analyze_disease(frame, tt) ==
    IF frame = None THEN [is_none |-> TRUE, genes |-> <<>>, pathways |-> <<>>]
    ELSE LET res == differential_expression_analysis(frame, tt)
         IN  [is_none |-> FALSE,
              genes |-> res.significant_genes,
              pathways |-> analyze_pathways(res.significant_genes)]

(***************************************************************************)
(* Collaborators of the request handlers, by their outcomes.               *)
(***************************************************************************)
\* kegg_api.fetch_kegg_genes: [] when a request raised, else a gene list.
KeggGeneOutcomes == {<<>>, <<"TP53", "BRCA1">>}

\* kegg_api.fetch_kegg_pathways: a pathway list (a fallback list at least).
KeggPathwayOutcomes == {<<"hsa00010">>}

\* enrichment.run_enrichment lines 17-18 and 37-75: [] without genes, else
\* the service's terms or the fallback table.
EnrichmentOutcomes(genes) ==
    IF genes = <<>> THEN {<<>>} ELSE {<<"api_term">>, <<"fallback_term">>}

EmptyNetwork ==
    [nodes |-> <<>>, edges |-> <<>>, network_url |-> "None",
     total_nodes |-> 0, total_edges |-> 0]

\* network.get_string_network lines 16-23 and 25-85: the empty network for
\* fewer than 2 genes, else the service's network or the fallback chain.
NetworkOutcomes(genes) ==
    IF Len(genes) < 2 THEN {EmptyNetwork}
    ELSE {[nodes |-> genes, edges |-> <<"api">>, network_url |-> "url",
           total_nodes |-> Len(genes), total_edges |-> 1],
          [nodes |-> <<>>, edges |-> <<>>, network_url |-> "url",
           total_nodes |-> 0, total_edges |-> 0],
          [nodes |-> genes, edges |-> <<"chain">>, network_url |-> "None",
           total_nodes |-> Len(genes), total_edges |-> Len(genes) - 1]}

\* ai_driver.get_gemini_explanation: the model's text or the fallback text.
ExplanationOutcomes == {"text", "unavailable"}

\* drugbank.get_drug_targets
get_drug_targets(genes) == [i \in 1..Len(Take(genes, 5)) |-> <<"Drug_", genes[i]>>]

\* A serialiser that accepts None only.
JsonSerialisableNoneOnly(res) == res = None

\* json.dump / jsonify accept a result of differential_expression_analysis
\* only when it holds no numpy object: 'adj_p_values' is a numpy array and
\* 'significant' holds numpy booleans, so only None and the value of the
\* except branch serialise.
JsonSerialisable(res) == res = None \/ "adj_p_values" \notin DOMAIN res

(***************************************************************************)
(* The history file (utils.py).  valid: the file holds a JSON list.        *)
(***************************************************************************)
load_history(h) == IF h.valid THEN h.entries ELSE <<>>

\* save_history lines 19-22.  open(.., 'w') truncates the file before
\* json.dump writes; a dump that raises leaves a partial document.
save_history(h, entry, ok) ==
    IF ok THEN [valid |-> TRUE, entries |-> <<entry>> \o load_history(h)]
    ELSE [valid |-> FALSE, entries |-> <<>>]

(***************************************************************************)
(* Initial states: a frame as pandas read it, and the t-test's p-value of  *)
(* every row for which the model does not compute it.                      *)
(***************************************************************************)
OracleP == {Num(1, 100), Num(1, 40)}

Cells == Values \cup {NonNumeric}

\* A text column is text in every row; at most MaxBadCols columns are text.
TextCols(cells, g, n) == {j \in 1..n : \E i \in 1..g : cells[i][j] = NonNumeric}

WellTyped(cells, g, n) ==
    /\ \A j \in TextCols(cells, g, n) : \A i \in 1..g : cells[i][j] = NonNumeric
    /\ Cardinality(TextCols(cells, g, n)) <= MaxBadCols

Frame(g, n, cells) ==
    [index |-> [i \in 1..g |-> GeneId(i)],
     columns |-> [j \in 1..n |-> SampleId(j)],
     values |-> cells]

\* The frames of g rows and n columns.
FramesOf(g, n) ==
    {Frame(g, n, cells) : cells \in {c \in [1..g -> [1..n -> Cells]] : WellTyped(c, g, n)}}

\* The p-values ttest_ind can return for row i of the frame.
TTestOutcomes(frame, i) ==
    LET n == Len(frame.columns)
        a == SubSeq(frame.values[i], 1, NControl(n))
        b == SubSeq(frame.values[i], NControl(n) + 1, n)
    IN  IF HasNonNumeric(frame.values[i]) THEN {NaN}
        ELSE IF TTestFixed(a, b) # {} THEN TTestFixed(a, b)
        ELSE OracleP

\* ttest_ind is a function of the two groups: equal rows, equal p-values.
TTests(frame) ==
    {t \in [1..Len(frame.index) -> OracleP \cup {NaN, PZero, POne}] :
        /\ \A i \in 1..Len(frame.index) : t[i] \in TTestOutcomes(frame, i)
        /\ \A i, j \in 1..Len(frame.index) :
              frame.values[i] = frame.values[j] => t[i] = t[j]}

NoChart == None

\* No job was submitted, report.pdf does not exist and nobody downloads.
BackendIdle ==
    /\ job = None
    /\ report = None
    /\ downloads = <<>>

InitRest ==
    /\ results = None
    /\ volcano = NoChart
    /\ heatmap = NoChart
    /\ ma_plot = NoChart
    /\ response = None
    /\ history = [valid |-> TRUE, entries |-> <<>>]
    /\ session = [last |-> None]
    /\ pc = "start"
    /\ heatmap_again = NoChart
    /\ call = None
    /\ queue = <<>>
    /\ sent = <<>>
    /\ ret = [state |-> "idle", value |-> <<>>]
    /\ writers = <<>>
    /\ ref = <<>>
    /\ BackendIdle

\* The file part of the request: none, a file whose name is empty or does
\* not end in .csv (never parsed), or a .csv file that pandas read as df.
Init ==
    /\ \/ /\ filename = "data.csv"
          /\ \E g \in 0..MaxGenes, n \in 0..MaxCols :
                g * n <= MaxCells /\ df \in FramesOf(g, n)
          /\ ttest \in TTests(df)
       \/ filename \in {"none", "", "notes.txt"} /\ df = None /\ ttest = <<>>
    /\ csv = None
    /\ InitRest

(***************************************************************************)
(* Direct calls of the analysis and of the chart transforms.               *)
(***************************************************************************)
CallAnalysis ==
    /\ pc = "start"
    /\ df # None
    /\ results' = differential_expression_analysis(df, ttest)
    /\ pc' = "analysed"
    /\ UNCHANGED <<filename, df, ttest, volcano, heatmap, ma_plot, response, history, session>>
    /\ UNCHANGED extra_vars

CallVolcano ==
    /\ pc = "analysed"
    /\ volcano' = create_volcano_plot(results)
    /\ results' = ResultsAfterVolcano(results)
    /\ pc' = "done"
    /\ UNCHANGED <<filename, df, ttest, heatmap, ma_plot, response, history, session>>
    /\ UNCHANGED extra_vars

CallHeatmap ==
    /\ pc = "analysed"
    /\ heatmap' = create_heatmap(df, results)
    /\ df' = InputsAfterHeatmap(df, results).df
    /\ results' = InputsAfterHeatmap(df, results).results
    /\ pc' = "done"
    /\ UNCHANGED <<filename, ttest, volcano, ma_plot, response, history, session>>
    /\ UNCHANGED extra_vars

CallMaPlot ==
    /\ pc = "analysed"
    /\ \E avg \in AvgVectors(results) : ma_plot' = create_ma_plot(results, avg)
    /\ results' = ResultsAfterMaPlot(results)
    /\ pc' = "done"
    /\ UNCHANGED <<filename, df, ttest, volcano, heatmap, response, history, session>>
    /\ UNCHANGED extra_vars

\* create_heatmap called once more on the same frame and result.
CallHeatmapAgain ==
    /\ pc = "done"
    /\ heatmap # NoChart
    /\ heatmap_again = NoChart
    /\ heatmap_again' = create_heatmap(df, results)
    /\ df' = InputsAfterHeatmap(df, results).df
    /\ results' = InputsAfterHeatmap(df, results).results
    /\ UNCHANGED <<filename, ttest, volcano, heatmap, ma_plot, response, history, session, pc>>
    /\ UNCHANGED <<service_vars, csv, store_vars, backend_vars>>

(***************************************************************************)
(* Request handlers of app.py.                                             *)
(***************************************************************************)
Diseases == {"", "asthma"}

\* enrichment.create_enrichment_plot
create_enrichment_plot(enrichment) ==
    IF enrichment = <<>> THEN [figure |-> EmptyDict, data |-> <<>>]
    ELSE [figure |-> [y |-> enrichment], data |-> enrichment]

\* network.create_cytoscape_config
create_cytoscape_config(network_data) ==
    [elements |-> network_data.nodes \o network_data.edges]

\* network.create_network_report
create_network_report(network_data, genes) ==
    [total_nodes |-> network_data.total_nodes,
     total_edges |-> network_data.total_edges,
     network_quality |-> IF network_data.total_edges > 10 THEN "high"
                         ELSE IF network_data.total_edges > 5 THEN "medium" ELSE "low"]

\* Line 50: the second analysis runs on a non-empty frame only.
IndexAnalysed == df # None /\ ~IsEmptyFrame(df)

\* The calls of differential_expression_analysis one POST / makes: one
\* inside analyze_disease (line 37, analysis.py line 24) when a file was
\* read, and one at line 52 when the frame is not empty.
IndexAnalysisRuns ==
    (IF df # None THEN <<"analyze_disease">> ELSE <<>>)
    \o (IF IndexAnalysed THEN <<"index">> ELSE <<>>)

\* Line 52.
IndexAnalysisResults ==
    IF IndexAnalysed THEN differential_expression_analysis(df, ttest) ELSE None

\* Lines 37-42 and 60-61: the gene list the handler goes on with.
IndexGenes(ad, kg) ==
    IF IndexAnalysed /\ IndexAnalysisResults.significant_genes # <<>>
    THEN IndexAnalysisResults.significant_genes
    ELSE IF ad.is_none THEN kg ELSE ad.genes

\* Lines 77-92: the dict saved to the history.
IndexEntry(disease, genes, pathways, explanation, enrichment, network_data, avg) ==
    [disease |-> disease, genes |-> genes, pathways |-> pathways,
     explanation |-> explanation,
     drugs |-> get_drug_targets(genes),
     enrichment |-> enrichment,
     enrichment_plot |-> create_enrichment_plot(enrichment),
     network_data |-> network_data,
     cytoscape_config |-> create_cytoscape_config(network_data),
     network_report |-> create_network_report(network_data, genes),
     volcano_data |-> IF IndexAnalysed THEN create_volcano_plot(IndexAnalysisResults)
                      ELSE None,
     heatmap_data |-> IF IndexAnalysed THEN create_heatmap(df, IndexAnalysisResults)
                      ELSE None,
     ma_plot_data |-> IF IndexAnalysed THEN create_ma_plot(IndexAnalysisResults, avg)
                      ELSE None,
     analysis_results |-> IndexAnalysisResults]

\* Lines 96-103.
SessionData(disease, genes, pathways, explanation, enrichment) ==
    [disease |-> disease, genes |-> genes, pathways |-> pathways,
     explanation |-> explanation,
     drugs |-> get_drug_targets(genes),
     enrichment |-> enrichment]

\* Lines 63-107, for the gene and pathway lists of lines 37-61.
IndexFinish(disease, genes, pathways, explanation) ==
    \E enrichment \in EnrichmentOutcomes(genes),
       network_data \in NetworkOutcomes(genes),
       avg \in (IF IndexAnalysed THEN AvgVectors(IndexAnalysisResults) ELSE {<<>>}) :
        /\ history' = save_history(history,
                         IndexEntry(disease, genes, pathways, explanation,
                                    enrichment, network_data, avg), TRUE)
        /\ session' = [last |-> SessionData(disease, genes, pathways,
                                            explanation, enrichment)]
        /\ response' = [route |-> "index", status |-> 302, location |-> "/results",
                        analyses |-> IndexAnalysisRuns]

\* Line 37.
IndexAd == analyze_disease(df, ttest)

\* POST / (index, lines 26-110).  The collaborators' answers are drawn only
\* where the handler's outcome depends on them.
PostIndex ==
    /\ pc = "start"
    /\ IF JsonSerialisable(IndexAnalysisResults)
       THEN \E disease \in Diseases, explanation \in ExplanationOutcomes,
               kg \in (IF IndexAd.is_none THEN KeggGeneOutcomes ELSE {<<>>}),
               kp \in (IF IndexAd.is_none THEN KeggPathwayOutcomes
                       ELSE {IndexAd.pathways}) :
              IndexFinish(disease, IndexGenes(IndexAd, kg), kp, explanation)
       ELSE \* json.dump raised inside save_history (line 93); lines 108-110
            /\ history' = save_history(history, None, FALSE)
            /\ session' = session
            /\ response' = [route |-> "index", status |-> 200,
                            location |-> "index.html?error",
                            analyses |-> IndexAnalysisRuns]
    /\ pc' = "done"
    /\ UNCHANGED <<filename, df, ttest, results, volcano, heatmap, ma_plot>>
    /\ UNCHANGED extra_vars

\* Whether api_upload accepts the file of the request (lines 282-290).
UploadAccepted(name) == name # "none" /\ name # "" /\ name = "data.csv"

\* The analysis and collaborator calls api_upload makes after the checks
\* of the file (lines 292-311), in order.
UploadWork ==
    <<"read_csv", "differential_expression_analysis", "create_volcano_plot",
      "create_heatmap", "create_ma_plot", "run_enrichment",
      "create_enrichment_plot", "get_string_network", "create_cytoscape_config">>

\* A handler that does the work first and checks the file afterwards.
UploadCallsEager(name) == UploadWork

\* The calls api_upload has made when it answers: the three checks of the
\* file return before line 292.
UploadCalls(name) == IF UploadAccepted(name) THEN UploadWork ELSE <<>>

\* The body of POST /api/upload once the file is accepted (lines 292-324).
UploadResponse ==
    LET analysis_results == differential_expression_analysis(df, ttest)
        significant_genes == analysis_results.significant_genes
    IN  IF JsonSerialisable(analysis_results)
        THEN {[route |-> "api_upload", status |-> 200, calls |-> UploadCalls(filename),
               body |-> [analysis_results |-> analysis_results,
                         volcano_data |-> create_volcano_plot(analysis_results),
                         heatmap_data |-> create_heatmap(df, analysis_results),
                         ma_plot_data |-> create_ma_plot(analysis_results, avg),
                         enrichment |-> enrichment,
                         enrichment_plot |-> create_enrichment_plot(enrichment),
                         network_data |-> network_data,
                         cytoscape_config |-> create_cytoscape_config(network_data)]] :
                  enrichment \in EnrichmentOutcomes(significant_genes),
                  network_data \in NetworkOutcomes(significant_genes),
                  avg \in AvgVectors(analysis_results)}
        ELSE \* jsonify raised TypeError; lines 323-324
             {[route |-> "api_upload", status |-> 500, calls |-> UploadCalls(filename),
               body |-> [error |-> "not JSON serializable"]]}

\* POST /api/upload (api_upload, lines 278-324).
ApiUpload ==
    /\ pc = "start"
    /\ IF filename = "none"
       THEN response' = [route |-> "api_upload", status |-> 400,
                         calls |-> UploadCalls(filename),
                         body |-> [error |-> "No file provided"]]
       ELSE IF filename = ""
       THEN response' = [route |-> "api_upload", status |-> 400,
                         calls |-> UploadCalls(filename),
                         body |-> [error |-> "No file selected"]]
       ELSE IF filename # "data.csv"
       THEN response' = [route |-> "api_upload", status |-> 400,
                         calls |-> UploadCalls(filename),
                         body |-> [error |-> "Only CSV files are supported"]]
       ELSE response' \in UploadResponse
    /\ pc' = "done"
    /\ UNCHANGED <<filename, df, ttest, results, volcano, heatmap, ma_plot, history, session>>
    /\ UNCHANGED extra_vars

Next ==
    \/ CallAnalysis
    \/ CallVolcano
    \/ CallHeatmap
    \/ CallMaPlot
    \/ CallHeatmapAgain
    \/ PostIndex
    \/ ApiUpload

Spec == Init /\ [][Next]_vars

(***************************************************************************)
(* Uploads: the CSV file of the request as the tests write it              *)
(* (df.to_csv(index=True)): a header row with an unnamed first field and   *)
(* the sample names, then one row per gene with the gene's name and a      *)
(* number per sample.  text_names: the gene names are text (G1, G2);       *)
(* otherwise they are numeric identifiers (1, 2).                          *)
(***************************************************************************)
CsvFiles(g, n) ==
    {[text_names |-> t,
      genes |-> [i \in 1..g |-> i],
      samples |-> [j \in 1..n |-> SampleId(j)],
      cells |-> c] : t \in BOOLEAN, c \in [1..g -> [1..n -> Values]]}

\* The first column of the file as the user means it: the row labels.
CsvGeneLabels(file) ==
    IF file.text_names THEN [i \in 1..Len(file.genes) |-> GeneId(file.genes[i])]
    ELSE file.genes

\* The cell pandas holds for the gene name of row i: text, or the number
\* of a numeric identifier.
FirstCell(file, i) == IF file.text_names THEN NonNumeric ELSE file.genes[i]

\* pd.read_csv(file) without index_col (app.py lines 35 and 294): the index
\* is RangeIndex(0..g-1) and the first column of the file is a column of
\* data, named "Unnamed: 0" for its empty header field.
read_csv(file) ==
    [index |-> [i \in 1..Len(file.genes) |-> i - 1],
     columns |-> <<"Unnamed: 0">> \o file.samples,
     values |-> [i \in 1..Len(file.genes) |-> <<FirstCell(file, i)>> \o file.cells[i]]]

InitUpload ==
    /\ filename = "data.csv"
    /\ \E g \in 1..MaxGenes, n \in 1..(MaxCols - 1) :
          g * (n + 1) <= MaxCells /\ csv \in CsvFiles(g, n)
    /\ df = read_csv(csv)
    /\ ttest \in TTests(df)
    /\ InitRest

NextUpload ==
    \/ PostIndex
    \/ ApiUpload

SpecUpload == InitUpload /\ [][NextUpload]_vars

(***************************************************************************)
(* The session routes: POST / on a store that already holds an entry and   *)
(* a session that may hold a result, followed by GET /results in the same  *)
(* session.                                                                *)
(***************************************************************************)
\* A result an earlier request of the session left in the session cookie.
PriorSession ==
    [disease |-> "diabetes", genes |-> <<"3630", "6514">>, pathways |-> <<"hsa04930">>,
     explanation |-> "text", drugs |-> get_drug_targets(<<"3630", "6514">>),
     enrichment |-> <<"api_term">>]

\* An entry an earlier request saved to the history file.
PriorEntry == [disease |-> "diabetes", genes |-> <<"3630", "6514">>]

\* kegg_pathway_image_url, kegg_api.py lines 207-209.
kegg_pathway_image_url(pathway_id) == <<"https://www.kegg.jp/pathway/", pathway_id>>

\* A session that always reads as empty.
SessionLastForgotten(sess) == EmptyDict

\* session.get("last", {}) at app.py line 118.
SessionLast(sess) == IF sess.last = None THEN EmptyDict ELSE sess.last

\* Line 123: not r or not r.get("disease")
NoStoredResult(r) == r = EmptyDict \/ r.disease = ""

\* Lines 127-173: the page rendered for the stored result r.
ResultsPage(r, network_data) ==
    [route |-> "results", status |-> 200, page |-> "results.html", r |-> r,
     kegg_images |-> [i \in 1..Len(r.pathways) |-> kegg_pathway_image_url(r.pathways[i])],
     string_image |-> IF r.genes = <<>> THEN None ELSE Take(r.genes, 10),
     network_data |-> network_data,
     enrichment |-> r.enrichment,
     enrichment_plot |-> IF r.enrichment = <<>> THEN EmptyDict
                         ELSE create_enrichment_plot(r.enrichment),
     volcano_data |-> EmptyDict, heatmap_data |-> EmptyDict,
     ma_plot_data |-> EmptyDict, analysis_results |-> EmptyDict]

\* The answers of GET /results for a session (results, lines 115-176).
ResultsResponses(sess) ==
    IF NoStoredResult(SessionLast(sess))
    THEN {[route |-> "results", status |-> 302, location |-> "/"]}
    ELSE {ResultsPage(SessionLast(sess), network_data) :
            network_data \in (IF SessionLast(sess).genes = <<>> THEN {EmptyDict}
                              ELSE NetworkOutcomes(SessionLast(sess).genes))}

\* GET /results (results, app.py lines 115-176), as the first request of
\* the session or after its POST /.
GetResults ==
    /\ pc \in {"start", "done"}
    /\ response' \in ResultsResponses(session)
    /\ pc' = "shown"
    /\ UNCHANGED <<filename, df, ttest, results, volcano, heatmap, ma_plot, history, session>>
    /\ UNCHANGED extra_vars

\* The frames of the session requests: no file, or a file of one gene row.
InitSite ==
    /\ \/ /\ filename = "data.csv"
          /\ \E n \in 0..MaxCols : df \in FramesOf(1, n)
          /\ ttest \in TTests(df)
       \/ filename = "none" /\ df = None /\ ttest = <<>>
    /\ results = None
    /\ volcano = NoChart
    /\ heatmap = NoChart
    /\ ma_plot = NoChart
    /\ response = None
    /\ history \in {[valid |-> TRUE, entries |-> <<>>],
                    [valid |-> TRUE, entries |-> <<PriorEntry>>]}
    /\ session \in {[last |-> None], [last |-> PriorSession]}
    /\ pc = "start"
    /\ heatmap_again = NoChart
    /\ call = None
    /\ queue = <<>>
    /\ sent = <<>>
    /\ ret = [state |-> "idle", value |-> <<>>]
    /\ writers = <<>>
    /\ ref = <<>>
    /\ BackendIdle
    /\ csv = None

NextSite ==
    \/ PostIndex
    \/ GetResults

SpecSite == InitSite /\ [][NextSite]_vars

(***************************************************************************)
(* The history store (utils.py) step by step.  A writer is a request or a  *)
(* task inside save_history or delete_history_item; the steps of a call    *)
(* are the read of the file (load_history), the open(HISTORY_FILE, 'w')    *)
(* that truncates it, and the json.dump that fills it.  Nothing in the     *)
(* code makes a writer wait for another.                                   *)
(***************************************************************************)
\* The variables the history store does not write.
store_frame ==
    <<filename, df, ttest, results, volcano, heatmap, ma_plot, response, session, pc,
      heatmap_again, service_vars, csv, backend_vars>>

\* Calls a writer makes one after the other when it is alone.
MaxOps == 2

\* Calls each of two concurrent writers makes.
MaxRaceOps == 1

\* Entries already in the file when the writers start.
MaxStored == 1

\* Entries handed to save_history: two dicts of JSON values, a dict holding
\* tuples (app.py line 83, the (term, p_value) tuples of run_enrichment)
\* and a dict holding a numpy array (line 91, analysis_results).
Entries == {"e1", "e2", "tuples", "numpy"}

\* json.dump raises TypeError on a numpy array.
Dumpable(entry) == entry # "numpy"

\* What json.load gives back for a dumped entry: tuples come back as lists.
JsonValue(entry) == IF entry = "tuples" THEN "lists" ELSE entry

\* Indices handed to delete_history_item.
Indices == -1..2

\* h.insert(0, entry), line 21.
Insert0(h, entry) == <<entry>> \o h

\* h.pop(i), line 27.
Pop(h, i) == SubSeq(h, 1, i) \o SubSeq(h, i + 2, Len(h))

\* Line 26 (i counts from 0).
InRange(h, i) == 0 <= i /\ i < Len(h)

\* The list a call builds from the list h it read (lines 21 and 26-27).
Updated(op, arg, h) ==
    IF op = "save" THEN Insert0(h, arg)
    ELSE IF InRange(h, arg) THEN Pop(h, arg) ELSE h

IdleWriter(n, max) ==
    [pc |-> "idle", op |-> "none", arg |-> 0, read |-> <<>>, h |-> <<>>,
     stale |-> FALSE, raised |-> FALSE, n |-> n, max |-> max]

\* A writer whose json.dump re-reads the file and applies its change to
\* what the file holds at that moment.
DumpContentFresh(w) == Updated(writers[w].op, writers[w].arg, load_history(history))

\* Lines 22 and 28: json.dump(h, ...) writes the list built from the
\* writer's own read.
DumpContent(w) == writers[w].h

\* The reference store: save prepends, delete removes the entry at an index
\* in range, a call that raised counts as not made.
RefAfter(list, op, arg, raised) ==
    IF raised THEN list
    ELSE IF op = "save" THEN Insert0(list, JsonValue(arg))
    ELSE IF InRange(list, arg) THEN Pop(list, arg) ELSE list

\* save_history(entry) or delete_history_item(i) is called.
HistoryCall(w) ==
    /\ writers[w].pc = "idle"
    /\ writers[w].n < writers[w].max
    /\ \E op \in {"save", "delete"} :
          \E arg \in (IF op = "save" THEN Entries ELSE Indices) :
              writers' = [writers EXCEPT ![w] =
                             [IdleWriter(writers[w].n, writers[w].max) EXCEPT
                                 !.pc = "called", !.op = op, !.arg = arg]]
    /\ UNCHANGED <<history, ref>>
    /\ UNCHANGED store_frame

\* Lines 20-21 and 25-27: h = load_history() and the change of h; a delete
\* whose index is out of range returns here.
HistoryLoad(w) ==
    /\ writers[w].pc = "called"
    /\ LET h == load_history(history)
           wr == writers[w]
       IN  IF wr.op = "delete" /\ ~InRange(h, wr.arg)
           THEN /\ writers' = [writers EXCEPT ![w] =
                                  [wr EXCEPT !.pc = "idle", !.read = h, !.h = h,
                                             !.n = wr.n + 1]]
                /\ ref' = RefAfter(ref, wr.op, wr.arg, FALSE)
           ELSE /\ writers' = [writers EXCEPT ![w] =
                                  [wr EXCEPT !.pc = "loaded", !.read = h,
                                             !.h = Updated(wr.op, wr.arg, h)]]
                /\ ref' = ref
    /\ UNCHANGED history
    /\ UNCHANGED store_frame

\* open(HISTORY_FILE, 'w'), lines 22 and 28: the file is truncated.
HistoryOpen(w) ==
    /\ writers[w].pc = "loaded"
    /\ history' = [valid |-> FALSE, entries |-> <<>>]
    /\ writers' = [writers EXCEPT ![w].pc = "opened", ![w].stale = FALSE]
    /\ UNCHANGED ref
    /\ UNCHANGED store_frame

\* Whether json.dump can write the list.
AllDumpable(h) == \A i \in 1..Len(h) : Dumpable(h[i])

\* What the file holds after the writer's json.dump.  The writer writes
\* from offset 0 of its own handle: when another writer has written since
\* this one opened the file, a shorter document leaves the tail of the
\* other's, which is not JSON.
FileAfterDump(w, h) ==
    IF ~AllDumpable(h) THEN {[valid |-> FALSE, entries |-> <<>>]}
    ELSE IF writers[w].stale /\ Len(h) < Len(history.entries)
    THEN {[valid |-> FALSE, entries |-> <<>>]}
    ELSE {[valid |-> TRUE, entries |-> [i \in 1..Len(h) |-> JsonValue(h[i])]]}

\* The other writers that hold the file open see their handle go stale.
MarkStale(w) ==
    [v \in DOMAIN writers |->
        IF v # w /\ writers[v].pc = "opened" THEN [writers[v] EXCEPT !.stale = TRUE]
        ELSE writers[v]]

\* json.dump(h, f), lines 22 and 28, and the return of the call.
HistoryDump(w) ==
    /\ writers[w].pc = "opened"
    /\ history' \in FileAfterDump(w, DumpContent(w))
    /\ writers' = [MarkStale(w) EXCEPT ![w] =
                      [writers[w] EXCEPT !.pc = "idle",
                                         !.raised = ~AllDumpable(DumpContent(w)),
                                         !.n = writers[w].n + 1]]
    /\ ref' = RefAfter(ref, writers[w].op, writers[w].arg, ~AllDumpable(DumpContent(w)))
    /\ UNCHANGED store_frame

\* The file as init_history or earlier calls left it.
StoredLists == {[i \in 1..k |-> "e0"] : k \in 0..MaxStored}

InitHistory(n_writers, max) ==
    /\ filename = "none"
    /\ df = None
    /\ ttest = <<>>
    /\ csv = None
    /\ results = None
    /\ volcano = NoChart
    /\ heatmap = NoChart
    /\ ma_plot = NoChart
    /\ response = None
    /\ session = [last |-> None]
    /\ pc = "start"
    /\ heatmap_again = NoChart
    /\ call = None
    /\ queue = <<>>
    /\ sent = <<>>
    /\ ret = [state |-> "idle", value |-> <<>>]
    /\ \E stored \in StoredLists :
          /\ history = [valid |-> TRUE, entries |-> stored]
          /\ ref = stored
    /\ writers = [w \in 1..n_writers |-> IdleWriter(0, max)]
    /\ BackendIdle

\* One writer: the calls follow one another.
InitHistorySeq == InitHistory(1, MaxOps)

NextHistory ==
    \/ \E w \in DOMAIN writers : HistoryCall(w)
    \/ \E w \in DOMAIN writers : HistoryLoad(w)
    \/ \E w \in DOMAIN writers : HistoryOpen(w)
    \/ \E w \in DOMAIN writers : HistoryDump(w)

SpecHistorySeq == InitHistorySeq /\ [][NextHistory]_vars

\* Two writers: two requests, or a request and a task, at the same time.
InitHistoryRace == InitHistory(2, MaxRaceOps)

SpecHistoryRace == InitHistoryRace /\ [][NextHistory]_vars

(***************************************************************************)
(* Large matrices: the analysis and the heatmap on more rows than the      *)
(* heatmap keeps.  The rows repeat a prefix of RowPool with a stride; the  *)
(* t-test's p-value of a row is fixed per pool row.                        *)
(***************************************************************************)
MaxLargeGenes == 52

RowPool ==
    << <<-1, 2, 2, 2>>,    \* ratio 4
       <<2, 2, -1, 2>>,    \* ratio 1/4
       <<-1, 2, 1, 2>>,    \* ratio 3
       <<1, 2, -1, 1>>,    \* treatment mean 0: -inf
       <<1, 2, -1, 2>>,    \* ratio 1/3
       <<1, 2, 1, 2>>,     \* equal means: p = 1
       <<1, 1, 1, 2>>,     \* ratio 3/2
       <<1, 1, 2, 2>>,     \* ratio 2, zero variance: p = 0
       <<-1, 1, 2, 2>> >>  \* control mean 0

LargeCounts == {MaxGenes + 1, MaxGenes + 2} \cup ((TopN - 1)..MaxLargeGenes)

Strides == {1, 2}

PoolRowOf(i, k, s) == ((s * (i - 1)) % k) + 1

LargeFrame(g, k, s) ==
    [index |-> [i \in 1..g |-> GeneId(i)],
     columns |-> [j \in 1..Len(RowPool[1]) |-> SampleId(j)],
     values |-> [i \in 1..g |-> RowPool[PoolRowOf(i, k, s)]]]

\* The p-value patterns over the pool rows.
OraclePatterns ==
    {[r \in 1..Len(RowPool) |-> Num(1, 100)],
     [r \in 1..Len(RowPool) |-> Num(1, 40)],
     [r \in 1..Len(RowPool) |-> IF r % 2 = 1 THEN Num(1, 100) ELSE Num(1, 40)],
     [r \in 1..Len(RowPool) |-> IF r % 2 = 1 THEN Num(1, 40) ELSE Num(1, 100)]}

LargeTTest(frame, g, k, s, o) ==
    [i \in 1..g |->
        IF TTestOutcomes(frame, i) = OracleP THEN o[PoolRowOf(i, k, s)]
        ELSE CHOOSE p \in TTestOutcomes(frame, i) : TRUE]

InitLarge ==
    /\ filename = "data.csv"
    /\ \E g \in LargeCounts, k \in 1..Len(RowPool), s \in Strides, o \in OraclePatterns :
          /\ df = LargeFrame(g, k, s)
          /\ ttest = LargeTTest(df, g, k, s, o)
    /\ csv = None
    /\ InitRest

NextLarge ==
    \/ CallAnalysis
    \/ CallHeatmap

SpecLarge == InitLarge /\ [][NextLarge]_vars


(***************************************************************************)
(* The collaborators: the calls that reach an external service (KEGG,      *)
(* g:Profiler, STRING-DB, Gemini).  A call sends requests; the service's   *)
(* answer to a request is one of Answers.                                  *)
(***************************************************************************)
\* connection_error: the request raises a requests.RequestException;
\* no_response: the service never answers; status_500: a non-2xx answer;
\* malformed: a 2xx answer whose body is not of the expected form;
\* empty: a 2xx answer with nothing in it; ok: a 2xx answer with content.
Answers == {"connection_error", "no_response", "status_500", "malformed", "empty", "ok"}

\* timeout=<seconds> of a request, and a request sent without one.
Timeout(seconds) == [set |-> TRUE, seconds |-> seconds]

NoTimeout == [set |-> FALSE, seconds |-> 0]

\* kegg_api.py lines 104, 126, 176: timeout=10
KeggTimeout == 10

\* enrichment.py line 38 and network.py line 39: timeout=30
PostTimeout == 30

Request(url, timeout, answer) == [url |-> url, timeout |-> timeout, answer |-> answer]

\* requests raises (ConnectionError, or Timeout once the timeout expires).
Raises(answer, timeout) ==
    answer = "connection_error" \/ (answer = "no_response" /\ timeout.set)

\* A request without a timeout to a service that never answers does not
\* return.
Blocks(answer, timeout) == answer = "no_response" /\ ~timeout.set

Pending == [state |-> "pending", value |-> <<>>]

Returned(value) == [state |-> "returned", value |-> value]

Raised == [state |-> "raised", value |-> <<>>]

Blocked == [state |-> "blocked", value |-> <<>>]

\* The keys of DISEASE_MAPPINGS, FALLBACK_GENES and FALLBACK_PATHWAYS (the
\* three tables have the same keys), in the order the dicts list them.
DiseaseKeys ==
    <<"alzheimer", "alzheimer's", "alzheimer's disease", "diabetes",
      "diabetes mellitus", "cancer", "breast cancer", "lung cancer",
      "parkinson", "parkinson's", "parkinson's disease", "hypertension",
      "asthma", "arthritis", "rheumatoid arthritis", "obesity",
      "depression", "schizophrenia", "autism", "epilepsy">>

\* kegg_api.py lines 10-31.
DISEASE_MAPPINGS(key) ==
    CASE key = "alzheimer's" -> "alzheimer"
      [] key = "alzheimer's disease" -> "alzheimer"
      [] key = "diabetes mellitus" -> "diabetes"
      [] key = "parkinson's" -> "parkinson"
      [] key = "parkinson's disease" -> "parkinson"
      [] OTHER -> key

\* kegg_api.py lines 34-55.
FALLBACK_GENES(key) ==
    CASE key \in {"alzheimer", "alzheimer's", "alzheimer's disease"} ->
            <<"APP", "PSEN1", "PSEN2", "APOE", "MAPT", "SNCA", "GRN", "VCP", "CHMP2B", "TARDBP">>
      [] key \in {"diabetes", "diabetes mellitus"} ->
            <<"INS", "INSR", "GCK", "HNF1A", "HNF4A", "PPARG", "KCNJ11", "ABCC8", "MTTP", "WFS1">>
      [] key \in {"cancer"} ->
            <<"TP53", "BRCA1", "BRCA2", "APC", "KRAS", "PIK3CA", "PTEN", "CDKN2A", "RB1", "MYC">>
      [] key \in {"breast cancer"} ->
            <<"BRCA1", "BRCA2", "TP53", "PTEN", "CDH1", "STK11", "PALB2", "CHEK2", "ATM", "BARD1">>
      [] key \in {"lung cancer"} ->
            <<"EGFR", "KRAS", "ALK", "ROS1", "BRAF", "MET", "RET", "TP53", "CDKN2A", "PTEN">>
      [] key \in {"parkinson", "parkinson's", "parkinson's disease"} ->
            <<"SNCA", "LRRK2", "PARK2", "PINK1", "DJ1", "ATP13A2", "VPS35", "EIF4G1", "DNAJC6", "SYNJ1">>
      [] key \in {"hypertension"} ->
            <<"ACE", "AGT", "AGTR1", "CYP11B2", "ADD1", "GNB3", "NOS3", "EDN1", "EDNRA", "EDNRB">>
      [] key \in {"asthma"} ->
            <<"IL13", "IL4", "IL5", "TNF", "ADAM33", "GSDMB", "ORMDL3", "CHI3L1", "HLA-DQB1", "IL33">>
      [] key \in {"arthritis", "rheumatoid arthritis"} ->
            <<"TNF", "IL1B", "IL6", "IL17A", "IL23R", "PTPN22", "CTLA4", "STAT4", "TRAF1", "CD40">>
      [] key \in {"obesity"} ->
            <<"LEP", "LEPR", "MC4R", "POMC", "FTO", "TMEM18", "GNPDA2", "SH2B1", "MTCH2", "NEGR1">>
      [] key \in {"depression"} ->
            <<"SLC6A4", "COMT", "MAOA", "BDNF", "HTR2A", "DRD2", "DRD4", "TPH2", "GABRA2", "CRHR1">>
      [] key \in {"schizophrenia"} ->
            <<"DISC1", "COMT", "DRD2", "HTR2A", "BDNF", "NRG1", "DTNBP1", "DAOA", "G72", "CHRNA7">>
      [] key \in {"autism"} ->
            <<"SHANK3", "CHD8", "ADNP", "ARID1B", "DYRK1A", "GRIN2B", "MECP2", "FOXP1", "FOXP2", "CNTNAP2">>
      [] key \in {"epilepsy"} ->
            <<"SCN1A", "SCN2A", "KCNQ2", "KCNQ3", "GABRA1", "GABRG2", "CHRNA4", "CHRNB2", "LGI1", "DEPDC5">>

\* kegg_api.py lines 58-79.
FALLBACK_PATHWAYS(key) ==
    CASE key \in {"alzheimer", "alzheimer's", "alzheimer's disease"} ->
            <<"hsa05010", "hsa05012", "hsa05014", "hsa05016", "hsa05020">>
      [] key \in {"diabetes", "diabetes mellitus"} ->
            <<"hsa04910", "hsa04930", "hsa04931", "hsa04932", "hsa04940">>
      [] key \in {"cancer"} ->
            <<"hsa05200", "hsa05202", "hsa05203", "hsa05204", "hsa05205">>
      [] key \in {"breast cancer"} ->
            <<"hsa05224", "hsa05215", "hsa05216", "hsa05217", "hsa05218">>
      [] key \in {"lung cancer"} ->
            <<"hsa05223", "hsa05215", "hsa05216", "hsa05217", "hsa05218">>
      [] key \in {"parkinson", "parkinson's", "parkinson's disease"} ->
            <<"hsa05012", "hsa05014", "hsa05016", "hsa05020", "hsa05022">>
      [] key \in {"hypertension"} ->
            <<"hsa04924", "hsa04925", "hsa04926", "hsa04927", "hsa04928">>
      [] key \in {"asthma"} ->
            <<"hsa05310", "hsa05320", "hsa05321", "hsa05322", "hsa05323">>
      [] key \in {"arthritis", "rheumatoid arthritis"} ->
            <<"hsa05323", "hsa05322", "hsa05321", "hsa05320", "hsa05310">>
      [] key \in {"obesity"} ->
            <<"hsa04931", "hsa04932", "hsa04933", "hsa04934", "hsa04935">>
      [] key \in {"depression", "schizophrenia", "autism", "epilepsy"} ->
            <<"hsa04726", "hsa04727", "hsa04728", "hsa04729", "hsa04730">>

\* The disease names of the calls.
ServiceDiseases == {"Asthma", "alzheimer", "invalid_disease_12345"}

\* str.lower() on the names above and on the table keys.
Lower(name) == IF name = "Asthma" THEN "asthma" ELSE name

\* The pairs <<whole, part>> of different names, among the table keys, the
\* search terms and the disease names, with part a substring of whole.
ProperParts ==
    {<<"alzheimer's", "alzheimer">>, <<"alzheimer's disease", "alzheimer">>,
     <<"alzheimer's disease", "alzheimer's">>, <<"diabetes mellitus", "diabetes">>,
     <<"breast cancer", "cancer">>, <<"lung cancer", "cancer">>,
     <<"parkinson's", "parkinson">>, <<"parkinson's disease", "parkinson">>,
     <<"parkinson's disease", "parkinson's">>, <<"rheumatoid arthritis", "arthritis">>,
     <<"alzheimer disease", "alzheimer">>, <<"parkinson disease", "parkinson">>}

\* part in whole
Contains(whole, part) == whole = part \/ <<whole, part>> \in ProperParts

InKeys(name) == \E i \in 1..Len(DiseaseKeys) : DiseaseKeys[i] = name

\* kegg_api.py lines 85-99.
SearchTerms(disease_name) ==
    <<Lower(disease_name)>>
    \o (IF InKeys(Lower(disease_name))
        THEN <<DISEASE_MAPPINGS(Lower(disease_name))>> ELSE <<>>)
    \o (IF Contains(Lower(disease_name), "alzheimer")
        THEN <<"alzheimer", "alzheimer disease">>
        ELSE IF Contains(Lower(disease_name), "diabetes")
        THEN <<"diabetes", "diabetes mellitus">>
        ELSE IF Contains(Lower(disease_name), "cancer")
        THEN <<"cancer", "tumor">>
        ELSE IF Contains(Lower(disease_name), "parkinson")
        THEN <<"parkinson", "parkinson disease">>
        ELSE <<>>)

\* The positions of the table keys that match a name (lines 148-149,
\* 165-166): key in disease_lower or disease_lower in key.
MatchingKeys(disease_name) ==
    {i \in 1..Len(DiseaseKeys) :
        \/ Contains(Lower(disease_name), DiseaseKeys[i])
        \/ Contains(DiseaseKeys[i], Lower(disease_name))}

FirstOf(positions) == CHOOSE i \in positions : \A j \in positions : i <= j

\* kegg_api.py lines 146-155.
KeggFallbackGenes(disease_name, max_genes) ==
    IF MatchingKeys(disease_name) = {}
    THEN Take(<<"TP53", "BRCA1", "APOE", "INS", "TNF">>, max_genes)
    ELSE Take(FALLBACK_GENES(DiseaseKeys[FirstOf(MatchingKeys(disease_name))]), max_genes)

\* get_fallback_pathways, kegg_api.py lines 162-169.
get_fallback_pathways(disease_name, max_paths) ==
    IF MatchingKeys(disease_name) = {}
    THEN Take(<<"hsa00010", "hsa00020", "hsa00030", "hsa00040", "hsa00051">>, max_paths)
    ELSE Take(FALLBACK_PATHWAYS(DiseaseKeys[FirstOf(MatchingKeys(disease_name))]), max_paths)

\* The gene identifiers parsed from an "ok" answer of KEGG's link service.
KeggLinkGenes == <<"351", "5663", "5664">>

\* The arguments of a call; the ones a function does not take are empty.
Call(fn, disease, genes, max) ==
    [fn |-> fn, disease |-> disease, genes |-> genes, max |-> max]

Idle == pc = "start" /\ ret.state = "idle"

Running(fn) == ret.state = "pending" /\ call # None /\ call.fn = fn

\* The variables a collaborator call does not write.
handler_vars ==
    <<filename, df, ttest, results, volcano, heatmap, ma_plot, history, session, pc,
      heatmap_again, csv, store_vars, backend_vars>>

\* fetch_kegg_genes(disease_name, max_genes), lines 81-85.
StartFetchKeggGenes ==
    /\ Idle
    /\ \E disease \in ServiceDiseases, max_genes \in {2, 10} :
          /\ call' = Call("fetch_kegg_genes", disease, <<>>, max_genes)
          /\ queue' = SearchTerms(disease)
    /\ sent' = <<>>
    /\ ret' = Pending
    /\ UNCHANGED <<handler_vars, response>>

\* The requests of one pass of the loop of lines 102-142.
KeggGenesRequests(search_term, a1, a2) ==
    <<Request(<<"find/disease", search_term>>, Timeout(KeggTimeout), a1)>>
    \o (IF a1 = "ok"
        THEN <<Request(<<"link/hsa", search_term>>, Timeout(KeggTimeout), a2)>>
        ELSE <<>>)

\* What one pass of the loop hands back: [] from the except branch when a
\* request raised, the genes when both answers had content, and nothing
\* (continue) otherwise.
KeggGenesPass(a1, a2, max_genes) ==
    IF Raises(a1, Timeout(KeggTimeout)) THEN Returned(<<>>)
    ELSE IF a1 # "ok" THEN Pending
    ELSE IF Raises(a2, Timeout(KeggTimeout)) THEN Returned(<<>>)
    ELSE IF a2 # "ok" THEN Pending
    ELSE Returned(Take(KeggLinkGenes, max_genes))

\* One pass of the loop over search_terms (lines 102-142).
KeggGenesStep ==
    /\ Running("fetch_kegg_genes")
    /\ queue # <<>>
    /\ \E a1 \in Answers : \E a2 \in (IF a1 = "ok" THEN Answers ELSE {"ok"}) :
          /\ sent' = sent \o KeggGenesRequests(Head(queue), a1, a2)
          /\ ret' = KeggGenesPass(a1, a2, call.max)
    /\ queue' = Tail(queue)
    /\ UNCHANGED <<handler_vars, response, call>>

\* Lines 144-155: no search term gave genes.
KeggGenesFallback ==
    /\ Running("fetch_kegg_genes")
    /\ queue = <<>>
    /\ ret' = Returned(KeggFallbackGenes(call.disease, call.max))
    /\ UNCHANGED <<handler_vars, response, call, queue, sent>>

\* The gene lists of the calls that take one.
GeneArgs == {<<>>, <<"351">>, <<"351", "5663">>}

\* The general pathways of kegg_api.py lines 169, 196 and 204.
GeneralPathways == <<"hsa00010", "hsa00020", "hsa00030", "hsa00040", "hsa00051">>

\* The pathway identifiers parsed from an "ok" answer for a gene.
KeggPathwaysOf(g) ==
    IF g = "351" THEN <<"hsa05010", "hsa04722", "hsa04726">>
    ELSE <<"hsa05010", "hsa04330", "hsa04310">>

\* Lines 186-187: append the identifiers not yet in the list.
RECURSIVE AppendNew(_, _)
AppendNew(pathways, pids) ==
    IF pids = <<>> THEN pathways
    ELSE AppendNew(IF \E i \in 1..Len(pathways) : pathways[i] = Head(pids)
                   THEN pathways ELSE Append(pathways, Head(pids)),
                   Tail(pids))

\* Lines 192-196 and 202-204: the fallback of fetch_kegg_pathways; the
\* disease name "" stands for None.
PathwaysFallback(disease_name, max_paths) ==
    IF disease_name # "" THEN get_fallback_pathways(disease_name, max_paths)
    ELSE Take(GeneralPathways, max_paths)

\* fetch_kegg_pathways(genes, max_paths, disease_name), lines 171-175.
\* ret.value holds the list `pathways` while the call runs.
StartFetchKeggPathways ==
    /\ Idle
    /\ \E genes \in GeneArgs, disease \in {"", "Asthma"}, max_paths \in {2, 5} :
          /\ call' = Call("fetch_kegg_pathways", disease, genes, max_paths)
          /\ queue' = genes
    /\ sent' = <<>>
    /\ ret' = Pending
    /\ UNCHANGED <<handler_vars, response>>

\* What one pass of the loop of lines 175-189 hands back.
KeggPathwaysPass(pathways, g, a, disease_name, max_paths) ==
    IF Raises(a, Timeout(KeggTimeout))
    THEN Returned(PathwaysFallback(disease_name, max_paths))
    ELSE IF a # "ok" THEN [state |-> "pending", value |-> pathways]
    ELSE IF Len(AppendNew(pathways, KeggPathwaysOf(g))) >= max_paths
    THEN Returned(Take(AppendNew(pathways, KeggPathwaysOf(g)), max_paths))
    ELSE [state |-> "pending", value |-> AppendNew(pathways, KeggPathwaysOf(g))]

\* One pass of the loop over genes (lines 175-189).
KeggPathwaysStep ==
    /\ Running("fetch_kegg_pathways")
    /\ queue # <<>>
    /\ \E a \in Answers :
          /\ sent' = Append(sent, Request(<<"link/pathway", Head(queue)>>,
                                          Timeout(KeggTimeout), a))
          /\ ret' = KeggPathwaysPass(ret.value, Head(queue), a, call.disease, call.max)
    /\ queue' = Tail(queue)
    /\ UNCHANGED <<handler_vars, response, call>>

\* Lines 191-198: the loop is over.
KeggPathwaysFinish ==
    /\ Running("fetch_kegg_pathways")
    /\ queue = <<>>
    /\ ret' = Returned(IF ret.value = <<>>
                       THEN PathwaysFallback(call.disease, call.max)
                       ELSE ret.value)
    /\ UNCHANGED <<handler_vars, response, call, queue, sent>>

\* Items in the result list of a g:Profiler answer.
MaxItems == 3

\* (term_name, p_value) tuples as lines 54-64 build them from the items of
\* the answer; p-values are written in thousandths.
ServiceTerms == {<<"GO:a", 1>>, <<"Reactome:b", 30>>, <<"GO:c", 30>>}

\* The result lists of an "ok" answer.
ServiceResults ==
    UNION {[1..k -> ServiceTerms] : k \in 1..MaxItems}

\* The table of _get_fallback_enrichment (lines 82-98).
FallbackEnrichment ==
    << <<"GO:0006915~apoptotic process", 1>>,
       <<"GO:0007165~signal transduction", 5>>,
       <<"GO:0006954~inflammatory response", 10>>,
       <<"GO:0006468~protein phosphorylation", 15>>,
       <<"GO:0006355~regulation of transcription", 20>>,
       <<"Reactome:R-HSA-73857~RNA Polymerase II Transcription", 25>>,
       <<"Reactome:R-HSA-74160~Gene expression", 30>>,
       <<"Reactome:R-HSA-109581~Apoptosis", 35>>,
       <<"Reactome:R-HSA-168256~Immune System", 40>>,
       <<"Reactome:R-HSA-162582~Signal Transduction", 45>>,
       <<"GO:0007049~cell cycle", 50>>,
       <<"GO:0008283~cell proliferation", 55>>,
       <<"GO:0007155~cell adhesion", 60>>,
       <<"GO:0006952~defense response", 65>>,
       <<"GO:0006810~transport", 70>> >>

\* Line 101: fallback_results[:min(max_terms, len(fallback_results))]
get_fallback_enrichment(genes, max_terms) ==
    Take(FallbackEnrichment,
         IF max_terms < Len(FallbackEnrichment) THEN max_terms ELSE Len(FallbackEnrichment))

\* The list left as the answer gave it.
SortByPValueSkipped(terms) == terms

\* Line 67: enrichment_results.sort(key=lambda x: x[1]), a stable sort.
SortByPValue(terms) ==
    LET rank == Array([i \in 1..Len(terms) |->
                    1 + Cardinality({j \in 1..Len(terms) :
                           \/ terms[j][2] < terms[i][2]
                           \/ (terms[j][2] = terms[i][2] /\ j < i)})])
    IN  Array([r \in 1..Len(terms) |-> terms[CHOOSE i \in 1..Len(terms) : rank[i] = r]])

\* What run_enrichment returns for the answer to its one request (lines
\* 38-75): the service's terms sorted and cut, [] for an empty result
\* list, and the fallback table for a non-200 status, a body that is not
\* the expected JSON, and a raised RequestException.
EnrichmentResult(genes, max_terms, a, body) ==
    IF a = "ok" THEN Take(SortByPValue(body), max_terms)
    ELSE IF a = "empty" THEN <<>>
    ELSE get_fallback_enrichment(genes, max_terms)

\* The request of run_enrichment, with the result list of the answer.
EnrichmentRequest(a, body) ==
    [url |-> <<"gprofiler", "gost/profile">>, timeout |-> Timeout(PostTimeout),
     answer |-> a, body |-> body]

\* run_enrichment(genes, max_terms), lines 12-75.
RunEnrichment ==
    /\ Idle
    /\ \E genes \in GeneArgs, max_terms \in {2, 10}, a \in Answers :
          \E body \in (IF a = "ok" THEN ServiceResults ELSE {<<>>}) :
              /\ call' = Call("run_enrichment", "", genes, max_terms)
              /\ sent' = IF genes = <<>> THEN <<>> ELSE <<EnrichmentRequest(a, body)>>
              /\ ret' = Returned(IF genes = <<>> THEN <<>>
                                 ELSE EnrichmentResult(genes, max_terms, a, body))
    /\ UNCHANGED <<handler_vars, response, queue>>

\* Interactions in a STRING answer.
MaxInteractions == 2

\* The gene lists handed to get_string_network: those of the other calls
\* and a list that names a gene twice.
NetworkGeneArgs == GeneArgs \cup {<<"351", "351">>}

\* The interactions of an "ok" answer: (preferredName_A, preferredName_B).
Interactions ==
    {pair \in {"351", "5663", "APP"} \X {"351", "5663", "APP"} : pair[1] # pair[2]}

NetworkBodies == UNION {[1..k -> Interactions] : k \in 1..MaxInteractions}

\* Lines 46-59: the nodes of the interactions, each name once, in the order
\* the names first appear.
RECURSIVE NodesOf(_, _, _)
NodesOf(names, genes, nodes) ==
    IF names = <<>> THEN nodes
    ELSE NodesOf(Tail(names), genes,
                 IF \E k \in 1..Len(nodes) : nodes[k].id = Head(names) THEN nodes
                 ELSE Append(nodes,
                        [id |-> Head(names), label |-> Head(names),
                         group |-> IF \E g \in 1..Len(genes) : genes[g] = Head(names)
                                   THEN "query" ELSE "interaction"]))

\* preferredName_A, preferredName_B of every interaction, in order.
RECURSIVE NamesOf(_)
NamesOf(body) ==
    IF body = <<>> THEN <<>>
    ELSE <<Head(body)[1], Head(body)[2]>> \o NamesOf(Tail(body))

\* Lines 43-78: the network of a 200 answer.
ServiceNetwork(genes, body) ==
    [nodes |-> NodesOf(NamesOf(body), genes, <<>>),
     edges |-> [k \in 1..Len(body) |-> [source |-> body[k][1], target |-> body[k][2]]],
     network_url |-> "url",
     total_nodes |-> Len(NodesOf(NamesOf(body), genes, <<>>)),
     total_edges |-> Len(body)]

\* _get_fallback_network, lines 87-119: one node per entry of genes[:10]
\* and an edge from each node to the next.
get_fallback_network(genes) ==
    LET nodes == [k \in 1..Len(Take(genes, 10)) |->
                     [id |-> genes[k], label |-> genes[k], group |-> "query"]]
    IN  [nodes |-> nodes,
         edges |-> [k \in 1..(Len(nodes) - 1) |->
                       [source |-> nodes[k].id, target |-> nodes[k + 1].id]],
         network_url |-> "None",
         total_nodes |-> Len(nodes),
         total_edges |-> Len(nodes) - 1]

\* What get_string_network returns for the answer to its one request
\* (lines 39-85).
StringNetworkResult(genes, a, body) ==
    IF a = "ok" THEN ServiceNetwork(genes, body)
    ELSE IF a = "empty" THEN ServiceNetwork(genes, <<>>)
    ELSE get_fallback_network(genes)

\* get_string_network(genes), lines 11-85.
GetStringNetwork ==
    /\ Idle
    /\ \E genes \in NetworkGeneArgs, a \in Answers :
          \E body \in (IF a = "ok" THEN NetworkBodies ELSE {<<>>}) :
              /\ call' = Call("get_string_network", "", genes, 100)
              /\ sent' = IF Len(genes) < 2 THEN <<>>
                         ELSE <<Request(<<"string-db", "json/network">>,
                                        Timeout(PostTimeout), a)>>
              /\ ret' = Returned(IF Len(genes) < 2 THEN EmptyNetwork
                                 ELSE StringNetworkResult(genes, a, body))
    /\ UNCHANGED <<handler_vars, response, queue>>

\* What fetch_string_network hands back for the answer to its request
\* (string_api.py lines 14-15): requests.get has no timeout and stands in
\* no try, and r.json() raises on a body that is not JSON.
StringApiResult(a) ==
    IF Blocks(a, NoTimeout) THEN Blocked
    ELSE IF Raises(a, NoTimeout) \/ a = "malformed" THEN Raised
    ELSE IF a = "ok" THEN Returned(<<"edge">>)
    ELSE Returned(<<>>)

\* fetch_string_network(genes), string_api.py lines 4-15.
FetchStringNetwork ==
    /\ Idle
    /\ \E genes \in GeneArgs, a \in Answers :
          /\ call' = Call("fetch_string_network", "", genes, 20)
          /\ sent' = IF genes = <<>> THEN <<>>
                     ELSE <<Request(<<"string-db", "json/network">>, NoTimeout, a)>>
          /\ ret' = IF genes = <<>> THEN Returned(<<>>) ELSE StringApiResult(a)
    /\ UNCHANGED <<handler_vars, response, queue>>

\* What get_gemini_explanation hands back (ai_driver.py lines 18-36).
\* generate_content is called without a timeout: when the service never
\* answers the call waits, unless the client library gives up by itself,
\* which raises into the except branch.
GeminiResults(a) ==
    IF a = "ok" THEN {Returned(<<"text">>)}
    ELSE IF a = "empty" THEN {Returned(<<"No explanation available.">>)}
    ELSE IF Blocks(a, NoTimeout) THEN {Blocked, Returned(<<"unavailable">>)}
    ELSE {Returned(<<"unavailable">>)}

\* get_gemini_explanation(disease, genes, pathways)
GetGeminiExplanation ==
    /\ Idle
    /\ \E disease \in ServiceDiseases, genes \in GeneArgs, a \in Answers :
          /\ call' = Call("get_gemini_explanation", disease, genes, 5)
          /\ sent' = <<Request(<<"gemini", "generate_content">>, NoTimeout, a)>>
          /\ ret' \in GeminiResults(a)
    /\ UNCHANGED <<handler_vars, response, queue>>

\* What fetch_kegg_genes can return to a handler, and how: "raised" ([]
\* from the except branch), "found" (genes of a KEGG entry) or "fallback"
\* (no search term gave genes).
FetchKeggGenesReturns(disease_name, max_genes) ==
    {[how |-> "raised", genes |-> <<>>],
     [how |-> "found", genes |-> Take(KeggLinkGenes, max_genes)],
     [how |-> "fallback", genes |-> KeggFallbackGenes(disease_name, max_genes)]}

\* The response of api_network for the genes fetch_kegg_genes returned
\* (app.py lines 204-216).
NetworkResponses(disease, kegg) ==
    IF kegg.genes = <<>>
    THEN {[route |-> "api_network", disease |-> disease, kegg |-> kegg.how,
           status |-> 404, body |-> [error |-> "No genes found for disease"]]}
    ELSE {[route |-> "api_network", disease |-> disease, kegg |-> kegg.how,
           status |-> 200,
           body |-> [network_data |-> network_data,
                     cytoscape_config |-> create_cytoscape_config(network_data),
                     network_report |-> create_network_report(network_data, kegg.genes)]] :
             network_data \in NetworkOutcomes(kegg.genes)}

\* GET /api/network/<disease> (api_network, app.py lines 198-218).
ApiNetwork ==
    /\ Idle
    /\ \E disease \in ServiceDiseases :
          \E kegg \in FetchKeggGenesReturns(disease, 20) :
              response' \in NetworkResponses(disease, kegg)
    /\ pc' = "done"
    /\ UNCHANGED <<filename, df, ttest, results, volcano, heatmap, ma_plot, history, session>>
    /\ UNCHANGED extra_vars

InitServices ==
    /\ filename = "none"
    /\ df = None
    /\ ttest = <<>>
    /\ csv = None
    /\ InitRest

NextServices ==
    \/ StartFetchKeggGenes
    \/ KeggGenesStep
    \/ KeggGenesFallback
    \/ StartFetchKeggPathways
    \/ KeggPathwaysStep
    \/ KeggPathwaysFinish
    \/ RunEnrichment
    \/ GetStringNetwork
    \/ FetchStringNetwork
    \/ GetGeminiExplanation
    \/ ApiNetwork

SpecServices == InitServices /\ [][NextServices]_vars

(***************************************************************************)
(* The job API of backend/app.py: POST /api/analyze queues the Celery task *)
(* analyze_async, a worker runs it, GET /api/results/<job_id> polls it.    *)
(***************************************************************************)
\* The variables the job API does not write.
job_frame ==
    <<filename, df, ttest, results, volcano, heatmap, ma_plot, session,
      heatmap_again, service_vars, csv, store_vars, report, downloads>>

\* The tuple analyze_disease returns (analysis.py lines 20, 32 and 36).
AnalyzeDiseaseReturn(frame, tt) ==
    LET ad == analyze_disease(frame, tt)
    IN  IF ad.is_none THEN <<None, None>> ELSE <<ad.genes, ad.pathways>>

\* a, b, c, d = value: Python raises ValueError unless value holds as many
\* items as there are names on the left.
Unpacks(value, names) == Len(value) = names

\* A task that raised: Celery stores the exception as the job's result.
JobFailure(exception) ==
    [state |-> "FAILURE", result |-> None, exception |-> exception]

JobSuccess(result) ==
    [state |-> "SUCCESS", result |-> result, exception |-> "none"]

\* Lines 91-106, for the values of lines 83-89.
AsyncResultDict(disease, returned, enrichment, kegg_ids, string_net, explanation) ==
    [disease |-> disease,
     genes |-> returned[1],
     pathways |-> returned[2],
     volcano_data |-> returned[3],
     heatmap |-> returned[4],
     enrichment |-> enrichment,
     kegg_images |-> [k \in 1..Len(kegg_ids) |-> kegg_pathway_image_url(kegg_ids[k])],
     string_network |-> string_net,
     explanation |-> explanation,
     drugs |-> get_drug_targets(returned[1])]

\* Lines 84-108: the ends of the task once line 83 has unpacked its tuple.
AsyncPipelineOutcomes(disease, returned) ==
    {JobFailure("RequestException")}
        \cup {JobSuccess(AsyncResultDict(disease, returned, enrichment, kegg_ids,
                                         string_net, explanation)) :
                 enrichment \in EnrichmentOutcomes(returned[1]),
                 kegg_ids \in KeggPathwayOutcomes,
                 string_net \in {<<>>, <<"edge">>},
                 explanation \in ExplanationOutcomes}

\* analyze_async (lines 79-108): how the task can end.  Line 83 unpacks the
\* tuple of analyze_disease into four names.
AnalyzeAsyncOutcomes(disease, frame, tt) ==
    LET returned == AnalyzeDiseaseReturn(frame, tt)
    IN  IF ~Unpacks(returned, 4) THEN {JobFailure("ValueError")}
        ELSE AsyncPipelineOutcomes(disease, returned)

\* POST /api/analyze (api_analyze, lines 53-58).
ApiAnalyze ==
    /\ pc = "start"
    /\ job = None
    /\ \E disease \in Diseases :
          job' = [state |-> "PENDING", disease |-> disease,
                  csv_bytes |-> (filename # "none" /\ filename # ""),
                  result |-> None, exception |-> "none"]
    /\ response' = [route |-> "api_analyze", status |-> 202, body |-> [job_id |-> 1]]
    /\ pc' = "submitted"
    /\ UNCHANGED <<history, job_frame>>

\* A worker runs the queued task to its end (analyze_async, lines 79-108).
\* save_history (line 107) is reached only by a task that did not raise.
AnalyzeAsync ==
    /\ job # None
    /\ job.state = "PENDING"
    /\ \E end \in AnalyzeAsyncOutcomes(job.disease,
                                       IF job.csv_bytes THEN df ELSE None, ttest) :
          /\ job' = [job EXCEPT !.state = end.state, !.result = end.result,
                                !.exception = end.exception]
          /\ history' = IF end.state = "SUCCESS"
                        THEN save_history(history, end.result, TRUE)
                        ELSE history
    /\ UNCHANGED <<response, pc, job_frame>>

\* GET /api/results/<job_id> (api_get_results, lines 63-67).  res.get() of
\* a failed job raises the task's exception again, which Flask answers
\* with 500.
ResultsOfJob(j) ==
    IF j.state = "PENDING"
    THEN [route |-> "api_get_results", status |-> 202, body |-> [status |-> "pending"]]
    ELSE IF j.state = "SUCCESS"
    THEN [route |-> "api_get_results", status |-> 200, body |-> j.result]
    ELSE [route |-> "api_get_results", status |-> 500, body |-> [error |-> j.exception]]

ApiGetResults ==
    /\ job # None
    /\ response' = ResultsOfJob(job)
    /\ pc' = "polled"
    /\ UNCHANGED <<history, job, job_frame>>

\* Sample columns of the CSV of a job.
MaxJobCols == 2

\* A job with a CSV of one gene row, or without a CSV.
InitJobs ==
    /\ \/ /\ filename = "data.csv"
          /\ \E n \in 0..MaxJobCols : df \in FramesOf(1, n)
          /\ ttest \in TTests(df)
       \/ filename = "none" /\ df = None /\ ttest = <<>>
    /\ csv = None
    /\ InitRest

NextJobs ==
    \/ ApiAnalyze
    \/ AnalyzeAsync
    \/ ApiGetResults

\* A running worker takes every queued task and runs it to its end; the
\* client keeps polling.
SpecJobs ==
    /\ InitJobs
    /\ [][NextJobs]_vars
    /\ WF_vars(AnalyzeAsync)
    /\ WF_vars(ApiGetResults)

(***************************************************************************)
(* PDF downloads: GET /download_pdf (app.py) and GET /api/download_pdf/    *)
(* <job_id> (backend/app.py) both call generate_pdf of utils.py, which     *)
(* writes the file report.pdf, and then send the file of that path.  The   *)
(* server runs the handlers of concurrent requests in threads of their     *)
(* own; the steps of a download are the write of the file (c.save()) and   *)
(* the read of it by send_file.                                            *)
(***************************************************************************)
\* The variables a download does not write.
pdf_frame ==
    <<filename, df, ttest, results, volcano, heatmap, ma_plot, response, history,
      session, pc, heatmap_again, service_vars, csv, store_vars, job>>

\* Requests that download at the same time.
MaxDownloads == 2

\* The results a session or a finished job holds.
StoredResults ==
    {SessionData(disease, genes, <<"hsa04930">>, "text", <<"api_term">>) :
        disease \in {"asthma", "diabetes"},
        genes \in {<<"3630", "6514">>, <<"TP53", "BRCA1">>}}

\* What generate_pdf draws on the page (utils.py lines 36-42).
ReportOf(r) ==
    [disease |-> r.disease,
     genes |-> Take(r.genes, 5),
     pathways |-> Take(r.pathways, 5),
     drugs |-> Take(r.drugs, 5),
     enrichment |-> Take(r.enrichment, 5),
     explanation |-> r.explanation]

\* generate_pdf line 34: the path of the file, the same for every call.
ReportPath == "report.pdf"

\* A request that is about to download: its route, and the result of its
\* session or job (None: the session holds no result, the job has none).
Downloader(route, r) ==
    [route |-> route, r |-> r, pc |-> "start", pdf_path |-> "", delivered |-> None]

\* download_pdf lines 181-184 and api_download_pdf lines 73-74, up to the
\* return of generate_pdf: canvas.save() has written the file.
GeneratePdf(d) ==
    /\ downloads[d].pc = "start"
    /\ IF downloads[d].r = None
       THEN /\ downloads' = [downloads EXCEPT ![d].pc =
                                IF downloads[d].route = "download_pdf"
                                THEN "redirected" ELSE "raised"]
            /\ report' = report
       ELSE /\ report' = [report EXCEPT ![ReportPath] = ReportOf(downloads[d].r)]
            /\ downloads' = [downloads EXCEPT ![d].pc = "generated",
                                              ![d].pdf_path = ReportPath]
    /\ UNCHANGED pdf_frame

\* send_file(pdf_path, as_attachment=True): the response carries what the
\* file of that path holds when it is read.
SendFile(d) ==
    /\ downloads[d].pc = "generated"
    /\ downloads' = [downloads EXCEPT ![d].pc = "sent",
                                      ![d].delivered = report[downloads[d].pdf_path]]
    /\ UNCHANGED <<report, pdf_frame>>

\* No report file has been written yet.
NoReports == [p \in {ReportPath} |-> None]

InitDownloads ==
    /\ filename = "none"
    /\ df = None
    /\ ttest = <<>>
    /\ csv = None
    /\ results = None
    /\ volcano = NoChart
    /\ heatmap = NoChart
    /\ ma_plot = NoChart
    /\ response = None
    /\ history = [valid |-> TRUE, entries |-> <<>>]
    /\ session = [last |-> None]
    /\ pc = "start"
    /\ heatmap_again = NoChart
    /\ call = None
    /\ queue = <<>>
    /\ sent = <<>>
    /\ ret = [state |-> "idle", value |-> <<>>]
    /\ writers = <<>>
    /\ ref = <<>>
    /\ job = None
    /\ report = NoReports
    /\ downloads \in [1..MaxDownloads ->
                         {Downloader(route, r) :
                             route \in {"download_pdf", "api_download_pdf"},
                             r \in StoredResults \cup {None}}]

NextDownloads ==
    \/ \E d \in DOMAIN downloads : GeneratePdf(d)
    \/ \E d \in DOMAIN downloads : SendFile(d)

SpecDownloads == InitDownloads /\ [][NextDownloads]_vars

(***************************************************************************)
(* Properties of differential_expression_analysis.                         *)
(***************************************************************************)
\* The analysis has run and returned the result of its try branch.
Succeeded == pc = "analysed" /\ "genes" \in DOMAIN results

\* The analysis has run and returned the value of its except branch.
Failed == pc = "analysed" /\ "genes" \notin DOMAIN results

\* |x| > 1 for a log2 value x, on the ratio x is the log of.
AbsGtOne(x) == x.k = "ninf" \/ (x.k = "fin" /\ (x.n > 2 * x.d \/ 2 * x.n < x.d))

\* p < 0.05
LtFiveHundredths(p) == p.k = "num" /\ p.n * 20 < p.d

\* The r-th smallest member of a set of indices.
NthOf(idx, r) == CHOOSE i \in idx : Cardinality({j \in idx : j < i}) = r - 1

\* C1: in every result, significant[i] is true exactly for the rows with
\* |log2fc[i]| > 1 and adj_p_values[i] < 0.05 (both strict), and
\* significant_genes is the sub-sequence of genes at those rows, in row
\* order; the result of the except branch lists no significant gene.
C1_SignificantGenesExact ==
    /\ Succeeded =>
          LET idx == {i \in 1..Len(results.genes) :
                         /\ AbsGtOne(results.log2fc[i])
                         /\ LtFiveHundredths(results.adj_p_values[i])}
          IN  /\ \A i \in 1..Len(results.genes) : results.significant[i] <=> i \in idx
              /\ Len(results.significant_genes) = Cardinality(idx)
              /\ \A r \in 1..Cardinality(idx) :
                    results.significant_genes[r] = results.genes[NthOf(idx, r)]
    /\ Failed => results.significant_genes = <<>>

\* A result with a significant first row and a second row that is not.
C1_Witness ==
    /\ Succeeded
    /\ Len(results.genes) = 2
    /\ ~results.significant[1]
    /\ results.significant[2]
    /\ results.significant_genes = <<results.genes[2]>>

\* C2: for n sample columns the control group is the first floor(n/2)
\* columns and the treatment group the remaining n - floor(n/2), by
\* position: contiguous, disjoint, and together every column.
C2_PositionalSplit ==
    df # None =>
        LET n == Len(df.columns)
            c == ControlCols(df)
            t == TreatmentCols(df)
        IN  /\ 2 * Len(c) <= n
            /\ n < 2 * Len(c) + 2
            /\ Len(c) + Len(t) = n
            /\ \A j \in 1..Len(c) : c[j] = df.columns[j]
            /\ \A j \in 1..Len(t) : t[j] = df.columns[Len(c) + j]
            /\ \A a \in 1..Len(c), b \in 1..Len(t) : c[a] # t[b]

\* An analysis of three sample columns (one control, two treatment) that
\* returned a result for at least one gene.
C2_Witness ==
    /\ Succeeded
    /\ Len(df.columns) = 3
    /\ Len(results.genes) > 0
    /\ Len(ControlCols(df)) = 1
    /\ Len(TreatmentCols(df)) = 2

\* The sum of cells lo..hi of a row.
CellSum(row, lo, hi) == SumSeq(SubSeq(row, lo, hi))

\* C3: in a result, a gene whose control mean is not greater than 0 has
\* log2fc = 0 whatever its treatment mean; a gene whose control mean is
\* greater than 0 has log2(mean_treatment / mean_control).
C3_Log2FoldChange ==
    Succeeded =>
        LET n == Len(df.columns)
            k == n \div 2
        IN  \A i \in 1..Len(results.genes) :
                IF CellSum(df.values[i], 1, k) <= 0
                THEN results.log2fc[i] = Log2Fin(1, 1)
                ELSE results.log2fc[i] =
                        NpLog2(CellSum(df.values[i], k + 1, n) * k,
                               CellSum(df.values[i], 1, k) * (n - k))

\* A result with a gene whose control mean is exactly 0 (its control cells
\* cancel) and whose treatment mean is positive: its log2fc is 0.
C3_Witness ==
    /\ Succeeded
    /\ \E i \in 1..Len(results.genes) :
          /\ CellSum(df.values[i], 1, Len(df.columns) \div 2) = 0
          /\ CellSum(df.values[i], Len(df.columns) \div 2 + 1, Len(df.columns)) > 0
          /\ results.log2fc[i] = Log2Fin(1, 1)

\* The six keys of a result.
ResultKeys ==
    {"genes", "log2fc", "p_values", "adj_p_values", "significant", "significant_genes"}

\* C4: every result returned by the analysis exposes genes, log2fc,
\* p_values, adj_p_values, significant and significant_genes, and the four
\* lists have one entry per matrix row, at the row's index in genes.
C4_SixKeysAligned ==
    pc = "analysed" =>
        /\ ResultKeys \subseteq DOMAIN results
        /\ results.genes = df.index
        /\ Len(results.log2fc) = Len(df.index)
        /\ Len(results.p_values) = Len(df.index)
        /\ Len(results.adj_p_values) = Len(df.index)
        /\ Len(results.significant) = Len(df.index)

\* Every cell of the frame is a number.
Numeric(frame) == \A i \in 1..Len(frame.index) : ~HasNonNumeric(frame.values[i])

\* The t-test of a row cannot be computed: one sample per group, or zero
\* variance in both groups.
Degenerate(row) ==
    \/ Len(row) = 2
    \/ /\ Len(row) > 2
       /\ IsConstSeq(SubSeq(row, 1, Len(row) \div 2))
       /\ IsConstSeq(SubSeq(row, Len(row) \div 2 + 1, Len(row)))

\* C5: when the t-test of a gene cannot be computed, the analysis does not
\* abort: that gene's p_value is 1.0 and the result is complete for every
\* gene.
C5_DegenerateTTestIsOne ==
    (/\ pc = "analysed"
     /\ Numeric(df)
     /\ \E i \in 1..Len(df.index) : Degenerate(df.values[i])) =>
        /\ ResultKeys \subseteq DOMAIN results
        /\ Len(results.p_values) = Len(df.index)
        /\ \A i \in 1..Len(df.index) :
              Degenerate(df.values[i]) => results.p_values[i] = Num(1, 1)

\* Every row of the frame repeats one number over at least one control and
\* one treatment column.
AllIdentical(frame) ==
    /\ Len(frame.index) > 0
    /\ Len(frame.columns) >= 2
    /\ Numeric(frame)
    /\ \A i \in 1..Len(frame.index) : IsConstSeq(frame.values[i])

\* C6: for a matrix whose genes have all-identical values across control
\* and treatment, every gene has log2fc = 0 and p_value = 1.0 and no gene
\* is significant.
C6_IdenticalValues ==
    (pc = "analysed" /\ AllIdentical(df)) =>
        /\ ResultKeys \subseteq DOMAIN results
        /\ \A i \in 1..Len(df.index) :
              /\ results.log2fc[i] = Log2Fin(1, 1)
              /\ results.p_values[i] = Num(1, 1)
              /\ ~results.significant[i]
        /\ results.significant_genes = <<>>

\* A non-numeric cell, or no row, or no column.
Malformed(frame) == ~Numeric(frame) \/ IsEmptyFrame(frame)

\* C7: for a malformed matrix (a non-numeric cell, or an empty matrix) the
\* analysis fails as a whole, with an outcome its caller can tell from a
\* successful analysis: what it returns is not a result of the successful
\* shape.
C7_MalformedSignalled ==
    (pc = "analysed" /\ Malformed(df)) => "genes" \notin DOMAIN results

\* The analysis of the uploaded matrix returns the value of its except
\* branch.
UploadFails ==
    /\ filename = "data.csv"
    /\ "genes" \notin DOMAIN differential_expression_analysis(df, ttest)

EmptyScatter == [plot_data |-> <<>>, figure |-> [empty |-> TRUE]]

EmptyHeatmap ==
    [genes |-> <<>>, samples |-> <<>>, values |-> <<>>, figure |-> [empty |-> TRUE]]

\* C8: when the analysis fails on an uploaded matrix, POST / and
\* POST /api/upload do not crash: they go on with an empty significant
\* gene list, every chart transform they call returns its empty value, and
\* the request ends with its success response (302 to /results, 200).
C8_FailedAnalysisHandled ==
    (pc = "done" /\ UploadFails /\ "route" \in DOMAIN response) =>
        IF response.route = "index"
        THEN /\ response.status = 302
             /\ response.location = "/results"
             /\ history.valid
             /\ Len(history.entries) = 1
             /\ history.entries[1].genes = <<>>
             /\ session.last.genes = <<>>
             /\ ~IsEmptyFrame(df) =>
                   /\ history.entries[1].analysis_results.significant_genes = <<>>
                   /\ history.entries[1].volcano_data = EmptyScatter
                   /\ history.entries[1].heatmap_data = EmptyHeatmap
                   /\ history.entries[1].ma_plot_data = EmptyScatter
        ELSE /\ response.status = 200
             /\ response.body.analysis_results.significant_genes = <<>>
             /\ response.body.volcano_data = EmptyScatter
             /\ response.body.heatmap_data = EmptyHeatmap
             /\ response.body.ma_plot_data = EmptyScatter
             /\ response.body.enrichment = <<>>

\* POST / on a matrix with one sample per group: the analysis fails, the
\* three chart transforms run and the request redirects to /results.
C8_Witness ==
    /\ pc = "done"
    /\ UploadFails
    /\ ~IsEmptyFrame(df)
    /\ Numeric(df)
    /\ "route" \in DOMAIN response
    /\ response.route = "index"
    /\ response.status = 302
    /\ history.entries[1].volcano_data = EmptyScatter
    /\ history.entries[1].genes = <<>>

\* a = b on p-values, as rationals.
PEq(a, b) == a.k = "num" /\ b.k = "num" /\ a.n * b.d = b.n * a.d

\* The number of p-values not greater than ps[j].
CountLe(ps, j) == Cardinality({k \in 1..Len(ps) : PLe(ps[k], ps[j])})

\* The Benjamini-Hochberg adjustment of ps[i]: the least of 1 and of
\* ps[j] * m / #{k : ps[k] <= ps[j]} over the p-values ps[j] >= ps[i].
\* x is that adjustment when it bounds every candidate and is one of them.
IsBHOf(x, ps, i) ==
    /\ PLe(x, Num(1, 1))
    /\ \A j \in 1..Len(ps) :
          PLe(ps[i], ps[j]) => PLe(x, Num(ps[j].n * Len(ps), ps[j].d * CountLe(ps, j)))
    /\ \/ PEq(x, Num(1, 1))
       \/ \E j \in 1..Len(ps) :
             /\ PLe(ps[i], ps[j])
             /\ PEq(x, Num(ps[j].n * Len(ps), ps[j].d * CountLe(ps, j)))

\* C9: in every successful result adj_p_values[i] >= p_values[i], and
\* adj_p_values[i] is the Benjamini-Hochberg adjustment of p_values[i],
\* the p-value of the same gene: the adjusted vector is in input order.
C9_AdjustedInInputOrder ==
    Succeeded =>
        /\ Len(results.adj_p_values) = Len(results.p_values)
        /\ \A i \in 1..Len(results.p_values) :
              /\ PLe(results.p_values[i], results.adj_p_values[i])
              /\ IsBHOf(results.adj_p_values[i], results.p_values, i)

\* A successful result of more than two genes whose p-values are not in
\* ascending order and whose adjustment changed a p-value.
C9_Witness ==
    /\ Succeeded
    /\ Len(results.p_values) > 2
    /\ PLt(results.p_values[2], results.p_values[1])
    /\ PLt(results.adj_p_values[2], results.adj_p_values[1])
    /\ PLt(results.p_values[2], results.adj_p_values[2])

\* The row of a gene in the result.
RowOfGene(gene) == CHOOSE i \in 1..Len(results.genes) : results.genes[i] = gene

\* |log2fc| of row i is greater than |log2fc| of row j, on the ratios.
MagnitudeGt(i, j) ==
    AbsKeyGt(AbsLog2(results.log2fc[i]), AbsLog2(results.log2fc[j]))

\* The heatmap of the analysed frame has been built from a successful
\* result.
HeatmapBuilt == pc = "done" /\ "genes" \in DOMAIN results /\ "genes" \in DOMAIN heatmap

\* C10: create_heatmap returns at most 50 genes, each marked significant,
\* in order of non-increasing |log2fc|; genes of equal |log2fc| keep their
\* row order; when more than 50 genes are significant the 50 returned are
\* those of largest |log2fc|.
C10_HeatmapTopFifty ==
    HeatmapBuilt =>
        LET hg == heatmap.genes
            sig == {i \in 1..Len(results.genes) : results.significant[i]}
            rows == {RowOfGene(hg[r]) : r \in 1..Len(hg)}
        IN  /\ Len(hg) <= 50
            /\ rows \subseteq sig
            /\ Cardinality(rows) = Len(hg)
            /\ Len(hg) = IF Cardinality(sig) > 50 THEN 50 ELSE Cardinality(sig)
            /\ \A r \in 1..Len(hg) : \A q \in (r + 1)..Len(hg) :
                  /\ ~MagnitudeGt(RowOfGene(hg[q]), RowOfGene(hg[r]))
                  /\ MagnitudeGt(RowOfGene(hg[r]), RowOfGene(hg[q]))
                        \/ RowOfGene(hg[r]) < RowOfGene(hg[q])
            /\ \A i \in sig \ rows : \A j \in rows : ~MagnitudeGt(i, j)

\* A heatmap of exactly 50 genes cut from more than 50 significant ones,
\* holding two genes of equal |log2fc| and opposite sign and leaving out a
\* significant gene.
C10_Witness ==
    /\ HeatmapBuilt
    /\ Len(heatmap.genes) = 50
    /\ Cardinality({i \in 1..Len(results.genes) : results.significant[i]}) > 50
    /\ \E r \in 1..49 :
          /\ ~MagnitudeGt(RowOfGene(heatmap.genes[r]), RowOfGene(heatmap.genes[r + 1]))
          /\ results.log2fc[RowOfGene(heatmap.genes[r])]
                # results.log2fc[RowOfGene(heatmap.genes[r + 1])]

C12_VolcanoFiniteY ==
    (volcano # NoChart /\ "y" \in DOMAIN volcano.figure) =>
        \A i \in 1..Len(volcano.figure.y) : volcano.figure.y[i].k = "fin"

KeggReturnsCovered ==
    (call # None /\ call.fn = "fetch_kegg_genes" /\ ret.state = "returned") =>
        \E kegg \in FetchKeggGenesReturns(call.disease, call.max) :
            kegg.genes = ret.value

\* C14: no collaborator call propagates an exception to its caller:
\* whatever the external service answers, the call returns a value.
C14_NoCollaboratorRaises == ret.state # "raised"

\* C15: every collaborator call returns even when the service never
\* responds: each request sent carries an explicit timeout, and no call
\* is left waiting.
C15_EveryRequestTimesOut ==
    /\ \A i \in 1..Len(sent) : sent[i].timeout.set
    /\ ret.state # "blocked"

\* C16: external calls are never retried: within one collaborator call a
\* request that failed is not sent again.
C16_NoRetry ==
    \A i \in 1..Len(sent) : \A j \in 1..Len(sent) :
        (i < j /\ sent[i].answer # "ok") => sent[j].url # sent[i].url

\* C19: GET /api/network/<disease> for a name that matches no KEGG
\* disease and no fallback table entry responds with status 404.
C19_UnknownDiseaseIs404 ==
    (response # None /\ response.route = "api_network"
        /\ response.kegg # "found" /\ MatchingKeys(response.disease) = {})
        => response.status = 404

(***************************************************************************)
(* Properties of the routes.                                               *)
(***************************************************************************)
\* C20: POST /api/upload rejects a request without a 'file' part, with an
\* empty file name or with a file name that does not end in .csv with
\* status 400, before any analysis or external call is made.
C20_InvalidUploadRejectedFirst ==
    (response # None /\ response.route = "api_upload" /\ filename # "data.csv") =>
        /\ response.status = 400
        /\ response.calls = <<>>

\* An upload of a file that is not a CSV file, answered.
C20_Witness ==
    /\ response # None
    /\ response.route = "api_upload"
    /\ filename \notin {"none", "", "data.csv"}
    /\ response.status = 400

\* C17: for an uploaded CSV whose header row holds the sample names and
\* whose first column holds the gene names, the analysis run by the upload
\* routes treats the first column as row labels: n counts only the sample
\* columns and the genes of the result are the gene names in file order.
C17_FirstColumnIsRowLabels ==
    (csv # None /\ response # None) =>
        /\ Len(df.columns) = Len(csv.samples)
        /\ LET analysis_results == differential_expression_analysis(df, ttest)
           IN  "genes" \in DOMAIN analysis_results
                  => analysis_results.genes = CsvGeneLabels(csv)

\* C18: for a well-formed expression CSV (gene rows, as many control as
\* treatment sample columns) POST /api/upload answers 200 with a body that
\* holds analysis_results, volcano_data, heatmap_data, ma_plot_data,
\* enrichment and network_data; it never answers 500.
C18_WellFormedUploadIs200 ==
    (csv # None /\ response # None /\ response.route = "api_upload"
        /\ Len(csv.samples) % 2 = 0) =>
        /\ response.status = 200
        /\ {"analysis_results", "volcano_data", "heatmap_data", "ma_plot_data",
            "enrichment", "network_data"} \subseteq DOMAIN response.body

(***************************************************************************)
(* Properties of the session and of the history store.                     *)
(***************************************************************************)
\* POST / answered with the redirect to /results; the entry it saved heads
\* the history and carries the disease name of the form.
PostRedirected ==
    /\ pc = "done"
    /\ response.route = "index"
    /\ response.status = 302

\* C21: after a POST / with a non-empty disease name answered 302, GET
\* /results in the same session renders the results page for that disease;
\* GET /results in a session without a stored result, or whose stored
\* disease name is empty, redirects to the home page.
C21_ResultsFollowSession ==
    [][(pc' = "shown") =>
          /\ (PostRedirected /\ history.entries[1].disease # "") =>
                /\ response'.status = 200
                /\ response'.page = "results.html"
                /\ response'.r.disease = history.entries[1].disease
          /\ (PostRedirected /\ history.entries[1].disease = "") =>
                /\ response'.status = 302
                /\ response'.location = "/"
          /\ (pc = "start" /\ session.last = None) =>
                /\ response'.status = 302
                /\ response'.location = "/"]_vars

\* The results page of the disease a POST / of the session has just saved.
C21_Witness ==
    /\ pc = "shown"
    /\ response.status = 200
    /\ response.r.disease = "asthma"
    /\ history.entries # <<>>
    /\ history.entries[1].disease = "asthma"

\* Two concurrent calls of save_history have both returned, and both had
\* read the same list.
BothSavedFromSameRead ==
    /\ DOMAIN writers = {1, 2}
    /\ \A w \in {1, 2} :
          /\ writers[w].pc = "idle"
          /\ writers[w].n = 1
          /\ writers[w].op = "save"
          /\ ~writers[w].raised
    /\ writers[1].read = writers[2].read

\* The list the file holds once the writer's list is dumped and loaded.
Stored(h) == [i \in 1..Len(h) |-> JsonValue(h[i])]

C27_HistoryRefinesReference ==
    (DOMAIN writers = {1} /\ writers[1].pc = "idle") => load_history(history) = ref

\* C23: handling one POST / with an uploaded non-empty CSV runs
\* differential_expression_analysis on the matrix exactly once.
C23_AnalysisRunsOnce ==
    (response # None /\ response.route = "index" /\ IndexAnalysed) =>
        Len(response.analyses) = 1

(***************************************************************************)
(* Properties of the heatmap, the enrichment and the network.              *)
(***************************************************************************)
\* The position of the gene among the row labels of the matrix.
MatrixRow(gene) == CHOOSE i \in 1..Len(df.index) : df.index[i] = gene

\* C24: in the dict create_heatmap returns for an analysis result, samples
\* is the list of the matrix's sample columns in column order, values has
\* one row per entry of genes, and values[k] is the matrix row of genes[k].
C24_HeatmapMatchesGenes ==
    HeatmapBuilt =>
        /\ heatmap.samples = df.columns
        /\ Len(heatmap.values) = Len(heatmap.genes)
        /\ \A k \in 1..Len(heatmap.genes) :
              /\ \E i \in 1..Len(df.index) : df.index[i] = heatmap.genes[k]
              /\ heatmap.values[k] = df.values[MatrixRow(heatmap.genes[k])]

\* A heatmap of two genes whose order in the heatmap is not their order in
\* the matrix.
C24_Witness ==
    /\ HeatmapBuilt
    /\ Len(heatmap.genes) = 2
    /\ MatrixRow(heatmap.genes[1]) > MatrixRow(heatmap.genes[2])
    /\ heatmap.values[1] # heatmap.values[2]

\* run_enrichment has returned.
EnrichmentReturned ==
    call # None /\ call.fn = "run_enrichment" /\ ret.state = "returned"

\* C25: run_enrichment returns [] for an empty gene list without contacting
\* the service; otherwise, on the API-success path and on the fallback
\* path, it returns at most max_terms (term_name, p_value) tuples in
\* non-decreasing p_value order.
C25_EnrichmentSortedAndCut ==
    EnrichmentReturned =>
        /\ call.genes = <<>> => (ret.value = <<>> /\ sent = <<>>)
        /\ Len(ret.value) <= call.max
        /\ \A i \in 1..Len(ret.value) : \A j \in 1..Len(ret.value) :
              i < j => ret.value[i][2] <= ret.value[j][2]

\* An answer of three terms in decreasing p_value order, returned as the
\* two terms of smallest p_value.
C25_Witness ==
    /\ EnrichmentReturned
    /\ call.max = 2
    /\ Len(sent) = 1
    /\ sent[1].answer = "ok"
    /\ Len(sent[1].body) = 3
    /\ sent[1].body[1][2] > sent[1].body[3][2]
    /\ Len(ret.value) = 2
    /\ ret.value[1] = sent[1].body[3]

\* C28: every network dict get_string_network returns, for any gene list
\* including one that names a gene twice, has total_nodes = len(nodes),
\* total_edges = len(edges), pairwise distinct node ids, and edges whose
\* source and target are ids of its nodes; with fewer than 2 genes the
\* network is empty.
C28_NetworkWellFormed ==
    (call # None /\ call.fn = "get_string_network" /\ ret.state = "returned") =>
        LET network == ret.value
            ids == {network.nodes[k].id : k \in 1..Len(network.nodes)}
        IN  /\ network.total_nodes = Len(network.nodes)
            /\ network.total_edges = Len(network.edges)
            /\ Cardinality(ids) = Len(network.nodes)
            /\ \A k \in 1..Len(network.edges) :
                  network.edges[k].source \in ids /\ network.edges[k].target \in ids
            /\ Len(call.genes) < 2 => (network.nodes = <<>> /\ network.edges = <<>>)

\* C30: a POST / request that fails (it answers with the error page
\* instead of the redirect to /results) leaves the stored state as it was:
\* load_history returns the entries it returned before the request, in the
\* same order, and session['last'] keeps its value.
C30_FailedPostKeepsStore ==
    [][(pc = "start" /\ pc' = "done" /\ response'.route = "index"
            /\ response'.status # 302)
          => (load_history(history') = load_history(history)
                /\ session' = session)]_vars

\* A job of POST /api/analyze is queued.
JobSubmitted == job # None /\ job.state = "PENDING"

\* The job's task returned its result dict and saved it to the history.
JobSucceeded ==
    /\ job # None
    /\ job.state = "SUCCESS"
    /\ load_history(history) # <<>>
    /\ Head(load_history(history)) = job.result

\* GET /api/results/<job_id> answered with the result of the finished job.
JobResultReturned ==
    /\ response # None
    /\ response.route = "api_get_results"
    /\ response.status = 200
    /\ response.body = job.result

\* C26: every job submitted through POST /api/analyze, with or without a
\* CSV, eventually completes successfully: its task returns the result
\* dict and saves it to the history, and a later GET /api/results/<job_id>
\* answers with that result.
C26_JobEventuallySucceeds == JobSubmitted ~> (JobSucceeded /\ JobResultReturned)

\* C29: a PDF download delivers the report generated from the result of the
\* requesting session or job, also when another download is being
\* generated at the same time.
C29_DownloadDeliversOwnReport ==
    \A d \in DOMAIN downloads :
        downloads[d].pc = "sent" => downloads[d].delivered = ReportOf(downloads[d].r)

====
